---- MODULE Spec2Model ----
(***************************************************************************)
(* A model of the Polygon MCP server (src/server.py): the module-level     *)
(* registration of the tools, the request each tool builds, the shared     *)
(* upstream GET (_polygon_get) and the string each tool returns.           *)
(*                                                                         *)
(* Python values are tagged records.  A Python str is a sequence of chunks *)
(* (TLA+ strings) whose concatenation is the text: identifiers whose case  *)
(* matters are split into one chunk per character, literals are one chunk. *)
(* A dict is a sequence of <<key, value>> pairs with unique keys, in       *)
(* insertion order.                                                        *)
(***************************************************************************)
EXTENDS Integers, Sequences, FiniteSets, TLC

VARIABLES
    env,        \* the value of POLYGON_API_KEY in os.environ (PNone when unset)
    isMain,     \* whether server.py runs as __main__ (TRUE) or is imported
    loadPos,    \* how many module-level statements of server.py have executed
    registry,   \* the names registered with mcp.tool() so far
    serving,    \* "no" before mcp.run, "running" inside it, "returned" after
    call,       \* per caller: the invocation in progress
    hour,       \* input of _determine_market_session
    minute,     \* input of _determine_market_session
    session,    \* its result ("none" before it has run)
    health      \* the run of scripts/health_check.py

vars == <<env, isMain, loadPos, registry, serving, call, hour, minute, session, health>>

-----------------------------------------------------------------------------
(* Python values *)

PNone == [t |-> "None"]
PBool(b) == [t |-> "bool", b |-> b]
PInt(i) == [t |-> "int", i |-> i]
\* a float, held in thousandths
PFloat(m) == [t |-> "float", m |-> m]
PStr(s) == [t |-> "str", s |-> s]
PList(l) == [t |-> "list", l |-> l]
PDict(d) == [t |-> "dict", d |-> d]
\* a datetime, held as seconds since the epoch (UTC)
PDateTime(e) == [t |-> "datetime", e |-> e]
\* a date, held as days since the epoch
PDate(n) == [t |-> "date", n |-> n]

\* Python truthiness, as used by `if x:`
Truthy(v) ==
    CASE v.t = "None" -> FALSE
      [] v.t = "bool" -> v.b
      [] v.t = "int" -> v.i # 0
      [] v.t = "float" -> v.m # 0
      [] v.t = "str" -> v.s # <<>>
      [] v.t = "list" -> v.l # <<>>
      [] v.t = "dict" -> v.d # <<>>
      [] OTHER -> TRUE

\* dict operations on a sequence of <<key, value>> pairs
HasKey(d, k) == \E i \in DOMAIN d : d[i][1] = k
KeyIndex(d, k) == CHOOSE i \in DOMAIN d : d[i][1] = k
Get(d, k) == d[KeyIndex(d, k)][2]
GetOr(d, k, default) == IF HasKey(d, k) THEN Get(d, k) ELSE default
SetItem(d, k, v) ==
    IF HasKey(d, k)
    THEN [d EXCEPT ![KeyIndex(d, k)] = <<k, v>>]
    ELSE Append(d, <<k, v>>)
Keys(d) == {d[i][1] : i \in DOMAIN d}

\* the concatenation of a text's chunks
RECURSIVE Join(_)
Join(s) == IF s = <<>> THEN "" ELSE s[1] \o Join(Tail(s))

-----------------------------------------------------------------------------
(* str.upper() *)

LowerChars == {"a", "b", "d", "k", "n", "r", "v"}
UpperChar(c) ==
    CASE c = "a" -> "A" [] c = "b" -> "B" [] c = "d" -> "D" [] c = "k" -> "K"
      [] c = "n" -> "N" [] c = "r" -> "R" [] c = "v" -> "V" [] OTHER -> c
Upper(s) == [i \in DOMAIN s |-> UpperChar(s[i])]

-----------------------------------------------------------------------------
(* datetime: the civil date and time of an instant, and strftime *)

IsLeap(y) == (y % 4 = 0 /\ y % 100 # 0) \/ y % 400 = 0
DaysInYear(y) == IF IsLeap(y) THEN 366 ELSE 365
DaysInMonth(y, m) ==
    IF m = 2 THEN (IF IsLeap(y) THEN 29 ELSE 28)
    ELSE IF m \in {4, 6, 9, 11} THEN 30 ELSE 31

\* n days after 1 January of year y
RECURSIVE YearOfDay(_, _)
YearOfDay(n, y) ==
    IF n < 0 THEN YearOfDay(n + DaysInYear(y - 1), y - 1)
    ELSE IF n >= DaysInYear(y) THEN YearOfDay(n - DaysInYear(y), y + 1)
    ELSE [year |-> y, doy |-> n]

RECURSIVE MonthOfDay(_, _, _)
MonthOfDay(n, y, m) ==
    IF n >= DaysInMonth(y, m) THEN MonthOfDay(n - DaysInMonth(y, m), y, m + 1)
    ELSE [month |-> m, day |-> n + 1]

\* the fields of the datetime that is e seconds after the epoch
Civil(e) ==
    LET days == e \div 86400
        secs == e % 86400
        yd == YearOfDay(days, 1970)
        md == MonthOfDay(yd.doy, yd.year, 1)
    IN [year |-> yd.year, month |-> md.month, day |-> md.day,
        hour |-> secs \div 3600, minute |-> (secs % 3600) \div 60,
        second |-> secs % 60]

Pad2(n) == IF n < 10 THEN "0" \o ToString(n) ELSE ToString(n)
Pad4(n) ==
    IF n < 10 THEN "000" \o ToString(n)
    ELSE IF n < 100 THEN "00" \o ToString(n)
    ELSE IF n < 1000 THEN "0" \o ToString(n) ELSE ToString(n)

\* strftime("%Y-%m-%d") of a civil date
StrfDate(c) == <<Pad4(c.year) \o "-" \o Pad2(c.month) \o "-" \o Pad2(c.day)>>
\* strftime("%Y-%m-%d %H:%M:%S <zone>")
StrfDateTime(c, zone) ==
    <<Pad4(c.year) \o "-" \o Pad2(c.month) \o "-" \o Pad2(c.day) \o " "
        \o Pad2(c.hour) \o ":" \o Pad2(c.minute) \o ":" \o Pad2(c.second)
        \o " " \o zone>>

_iso_date(e) == StrfDate(Civil(e))

-----------------------------------------------------------------------------
(* _determine_market_session *)

_determine_market_session_noPre(h, m) ==
    LET time_minutes == h * 60 + m
    IN IF 240 < time_minutes /\ time_minutes < 570 THEN "pre_market"
       ELSE IF 570 < time_minutes /\ time_minutes < 960 THEN "regular_market"
       ELSE IF 960 < time_minutes /\ time_minutes < 1200 THEN "after_hours"
       ELSE "market_closed"

_determine_market_session(h, m) ==
    LET time_minutes == h * 60 + m
    IN IF 240 <= time_minutes /\ time_minutes < 570 THEN "pre_market"
       ELSE IF 570 <= time_minutes /\ time_minutes < 960 THEN "regular_market"
       ELSE IF 960 <= time_minutes /\ time_minutes < 1200 THEN "after_hours"
       ELSE "market_closed"

-----------------------------------------------------------------------------
(* json.dumps(value, indent=2) and str(value), as texts *)

RECURSIVE Spaces(_)
Spaces(n) == IF n = 0 THEN "" ELSE " " \o Spaces(n - 1)

FloatRepr(m) ==
    LET whole == m \div 1000
        frac == m % 1000
    IN ToString(whole) \o "." \o
        (IF frac % 100 = 0 THEN ToString(frac \div 100)
         ELSE IF frac % 10 = 0 THEN Pad2(frac \div 10)
         ELSE (IF frac < 100 THEN "0" ELSE "") \o Pad2(frac))

RECURSIVE JsonText(_, _)
RECURSIVE JsonItems(_, _, _)
RECURSIVE JsonMembers(_, _, _)
\* the members of a list from index i on, each on its own line at depth lvl
JsonItems(l, i, lvl) ==
    IF i > Len(l) THEN ""
    ELSE Spaces(2 * lvl) \o JsonText(l[i], lvl)
         \o (IF i < Len(l) THEN ",\n" ELSE "\n") \o JsonItems(l, i + 1, lvl)
JsonMembers(d, i, lvl) ==
    IF i > Len(d) THEN ""
    ELSE Spaces(2 * lvl) \o "\"" \o d[i][1] \o "\": " \o JsonText(d[i][2], lvl)
         \o (IF i < Len(d) THEN ",\n" ELSE "\n") \o JsonMembers(d, i + 1, lvl)
JsonText(v, lvl) ==
    CASE v.t = "None" -> "null"
      [] v.t = "bool" -> (IF v.b THEN "true" ELSE "false")
      [] v.t = "int" -> ToString(v.i)
      [] v.t = "float" -> FloatRepr(v.m)
      [] v.t = "str" -> "\"" \o Join(v.s) \o "\""
      [] v.t = "list" ->
            IF v.l = <<>> THEN "[]"
            ELSE "[\n" \o JsonItems(v.l, 1, lvl + 1) \o Spaces(2 * lvl) \o "]"
      [] v.t = "dict" ->
            IF v.d = <<>> THEN "{}"
            ELSE "{\n" \o JsonMembers(v.d, 1, lvl + 1) \o Spaces(2 * lvl) \o "}"

\* json.dumps(v, indent=2)
json_dumps(v) == <<JsonText(v, 0)>>

RECURSIVE ReprText(_)
RECURSIVE ReprItems(_, _)
RECURSIVE ReprMembers(_, _)
ReprItems(l, i) ==
    IF i > Len(l) THEN ""
    ELSE ReprText(l[i]) \o (IF i < Len(l) THEN ", " ELSE "") \o ReprItems(l, i + 1)
ReprMembers(d, i) ==
    IF i > Len(d) THEN ""
    ELSE "'" \o d[i][1] \o "': " \o ReprText(d[i][2])
         \o (IF i < Len(d) THEN ", " ELSE "") \o ReprMembers(d, i + 1)
\* repr(v), which is what str() and an f-string give for a container
ReprText(v) ==
    CASE v.t = "None" -> "None"
      [] v.t = "bool" -> (IF v.b THEN "True" ELSE "False")
      [] v.t = "int" -> ToString(v.i)
      [] v.t = "float" -> FloatRepr(v.m)
      [] v.t = "str" -> "'" \o Join(v.s) \o "'"
      [] v.t = "list" -> "[" \o ReprItems(v.l, 1) \o "]"
      [] v.t = "dict" -> "{" \o ReprMembers(v.d, 1) \o "}"

\* str(v), as an f-string field formats it
StrOf(v) == IF v.t = "str" THEN v.s ELSE <<ReprText(v)>>

-----------------------------------------------------------------------------
(* Exceptions and the outcome of a block of statements *)

Raised(type, msg) == [ok |-> FALSE, exc |-> type, msg |-> msg]
Built(path, params) == [ok |-> TRUE, path |-> path, params |-> params]
Value(v) == [ok |-> TRUE, v |-> v]

NoUpper(v) ==
    Raised("AttributeError",
           <<"'" \o (IF v.t = "None" THEN "NoneType" ELSE v.t)
               \o "' object has no attribute 'upper'">>)

\* str(b).lower() of a bool
StrLower(v) == IF v.b THEN <<"true">> ELSE <<"false">>

\* `if v: params[k] = v`
IfTruthy(params, k, v) == IF Truthy(v) THEN SetItem(params, k, v) ELSE params
\* `if v is not None: params[k] = str(v).lower()`
IfNotNone(params, k, v) ==
    IF v # PNone THEN SetItem(params, k, PStr(StrLower(v))) ELSE params
\* `if ticker: params[k] = ticker.upper()`
IfTruthyUpper(params, k, v) ==
    IF Truthy(v) THEN SetItem(params, k, PStr(Upper(v.s))) ELSE params
\* `if include_otc: params["include_otc"] = "true"`
IfTruthyTrue(params, k, v) ==
    IF Truthy(v) THEN SetItem(params, k, PStr(<<"true">>)) ELSE params

\* an argument the caller leaves out, and the binding of a parameter that has
\* a default in the signature
Omitted == [t |-> "omitted"]
OrDefault(v, default) == IF v = Omitted THEN default ELSE v

\* the isinstance(..., (datetime, date)) conversion, then the f-string field
FmtDate(v) ==
    IF v.t = "datetime" THEN StrfDate(Civil(v.e))
    ELSE IF v.t = "date" THEN StrfDate(Civil(v.n * 86400))
    ELSE StrOf(v)

-----------------------------------------------------------------------------
(* The request each tool builds: its path and its params, or the exception  *)
(* raised before _polygon_get is called.  a holds the bound parameters.     *)

stock_price_request(a, now) ==
    LET end_dt == now
        start_dt == end_dt - 30 * 86400
    IN IF a.stock_ticker.t # "str" THEN NoUpper(a.stock_ticker)
       ELSE Built(<<"/v2/aggs/ticker/">> \o Upper(a.stock_ticker.s) \o <<"/range/1/day/">>
                    \o _iso_date(start_dt) \o <<"/">> \o _iso_date(end_dt),
                  <<<<"adjusted", PStr(<<"true">>)>>, <<"sort", PStr(<<"asc">>)>>,
                    <<"limit", PInt(5000)>>>>)

stock_info_request(a) ==
    IF a.stock_ticker.t # "str" THEN NoUpper(a.stock_ticker)
    ELSE Built(<<"/v3/reference/tickers/">> \o Upper(a.stock_ticker.s), <<>>)

income_statement_request(a) ==
    IF a.stock_ticker.t # "str" THEN NoUpper(a.stock_ticker)
    ELSE Built(<<"/vX/reference/financials">>,
               <<<<"ticker", PStr(Upper(a.stock_ticker.s))>>,
                 <<"timeframe", PStr(<<"quarterly">>)>>,
                 <<"limit", PInt(1)>>, <<"order", PStr(<<"desc">>)>>>>)

aggs_path_noUpper(a) ==
    <<"/v2/aggs/ticker/">> \o a.ticker.s \o <<"/range/">> \o StrOf(a.multiplier)
        \o <<"/">> \o StrOf(a.timespan) \o <<"/">> \o FmtDate(a.from_date)
        \o <<"/">> \o FmtDate(a.to_date)

\* the path both aggregate tools format
aggs_path(a) ==
    <<"/v2/aggs/ticker/">> \o Upper(a.ticker.s) \o <<"/range/">> \o StrOf(a.multiplier)
        \o <<"/">> \o StrOf(a.timespan) \o <<"/">> \o FmtDate(a.from_date)
        \o <<"/">> \o FmtDate(a.to_date)

get_aggregates_request(a) ==
    IF a.ticker.t # "str" THEN NoUpper(a.ticker)
    ELSE Built(aggs_path(a),
               IfTruthy(IfTruthy(IfNotNone(<<>>, "adjusted", a.adjusted),
                                 "sort", a.sort), "limit", a.limit))

get_previous_close_request(a) ==
    IF a.ticker.t # "str" THEN NoUpper(a.ticker)
    ELSE Built(<<"/v2/aggs/ticker/">> \o Upper(a.ticker.s) \o <<"/prev">>,
               IfNotNone(<<>>, "adjusted", a.adjusted))

get_last_trade_request(a) ==
    IF a.ticker.t # "str" THEN NoUpper(a.ticker)
    ELSE Built(<<"/v2/last/trade/">> \o Upper(a.ticker.s), <<>>)

get_last_quote_request(a) ==
    IF a.ticker.t # "str" THEN NoUpper(a.ticker)
    ELSE Built(<<"/v2/last/quote/">> \o Upper(a.ticker.s), <<>>)

get_snapshot_ticker_request(a) ==
    IF a.ticker.t # "str" THEN NoUpper(a.ticker)
    ELSE Built(<<"/v2/snapshot/locale/">> \o StrOf(a.market_type) \o <<"/markets/">>
                 \o StrOf(a.market_type) \o <<"/tickers/">> \o Upper(a.ticker.s), <<>>)

get_market_status_request(a) == Built(<<"/v1/marketstatus/now">>, <<>>)

search_tickers_request(a) ==
    Built(<<"/v3/reference/tickers">>,
          IfTruthy(IfTruthy(IfTruthy(IfNotNone(IfTruthy(IfTruthy(IfTruthy(<<>>,
              "search", a.search), "type", a.type), "market", a.market),
              "active", a.active), "limit", a.limit), "sort", a.sort),
              "order", a.order))

get_ticker_news_request(a) ==
    Built(<<"/v2/reference/news">>,
          IfTruthy(IfTruthy(IfTruthy(IfTruthy(IfTruthyUpper(<<>>,
              "ticker", a.ticker), "published_utc", a.published_utc),
              "limit", a.limit), "sort", a.sort), "order", a.order))

get_dividends_allLimit(a) ==
    Built(<<"/v3/reference/dividends">>,
          SetItem(IfTruthy(IfTruthy(IfTruthy(IfTruthyUpper(<<>>,
              "ticker", a.ticker), "ex_dividend_date", a.ex_dividend_date),
              "frequency", a.frequency), "dividend_type", a.dividend_type),
              "limit", a.limit))

get_dividends_request(a) ==
    Built(<<"/v3/reference/dividends">>,
          IfTruthy(IfTruthy(IfTruthy(IfTruthy(IfTruthyUpper(<<>>,
              "ticker", a.ticker), "ex_dividend_date", a.ex_dividend_date),
              "frequency", a.frequency), "dividend_type", a.dividend_type),
              "limit", a.limit))

get_splits_request(a) ==
    Built(<<"/v3/reference/splits">>,
          IfTruthy(IfNotNone(IfTruthy(IfTruthyUpper(<<>>,
              "ticker", a.ticker), "execution_date", a.execution_date),
              "reverse_split", a.reverse_split), "limit", a.limit))

get_treasury_yields_request(a) ==
    Built(<<"/v1/indicators/treasury-yield">>,
          IfTruthy(IfTruthy(IfTruthy(IfTruthy(<<>>,
              "date", a.date), "limit", a.limit), "sort", a.sort), "order", a.order))

get_intraday_aggregates_request(a) ==
    IF a.ticker.t # "str" THEN NoUpper(a.ticker)
    ELSE Built(<<"/v2/aggs/ticker/">> \o Upper(a.ticker.s) \o <<"/range/">>
                  \o StrOf(a.multiplier) \o <<"/">> \o StrOf(a.timespan)
                  \o <<"/">> \o FmtDate(a.from_date) \o <<"/">> \o FmtDate(a.to_date),
               IfTruthyTrue(IfTruthy(IfTruthy(IfNotNone(<<>>, "adjusted", a.adjusted),
                                 "sort", a.sort), "limit", a.limit),
                            "include_otc", a.include_otc))

get_ticker_exchange_info_request(a) ==
    IF a.ticker.t # "str" THEN NoUpper(a.ticker)
    ELSE Built(<<"/v3/reference/tickers/">> \o Upper(a.ticker.s), <<>>)

\* get_earnings, get_analyst_ratings: ticker, date, limit, sort, order
dated_listing_request(path, a) ==
    Built(path,
          IfTruthy(IfTruthy(IfTruthy(IfTruthy(IfTruthyUpper(<<>>,
              "ticker", a.ticker), "date", a.date), "limit", a.limit),
              "sort", a.sort), "order", a.order))

get_earnings_request(a) == dated_listing_request(<<"/v3/reference/earnings">>, a)

get_analyst_ratings_request(a) == dated_listing_request(<<"/v2/reference/analysts">>, a)

get_short_interest_request(a) ==
    Built(<<"/v2/reference/short-interest">>,
          IfTruthy(IfTruthy(IfTruthy(IfTruthy(IfTruthyUpper(<<>>,
              "ticker", a.ticker), "settlement_date", a.settlement_date),
              "limit", a.limit), "sort", a.sort), "order", a.order))

get_options_contracts_request(a) ==
    IF a.underlying_asset.t # "str" THEN NoUpper(a.underlying_asset)
    ELSE Built(<<"/v3/reference/options/contracts">>,
               IfTruthy(IfTruthy(IfTruthy(IfTruthy(
                   <<<<"underlying_asset", PStr(Upper(a.underlying_asset.s))>>>>,
                   "contract_type", a.contract_type), "strike_price", a.strike_price),
                   "expiration_date", a.expiration_date), "limit", a.limit))

get_options_snapshot_request(a) ==
    IF a.underlying_asset.t # "str" THEN NoUpper(a.underlying_asset)
    ELSE Built(<<"/v3/snapshot/options/">> \o Upper(a.underlying_asset.s),
               IfTruthy(IfTruthy(IfTruthy(<<>>,
                   "strike_price", a.strike_price),
                   "expiration_date", a.expiration_date),
                   "contract_type", a.contract_type))

\* get_balance_sheet and get_cash_flow have the same body
get_balance_sheet_request(a) ==
    LET timeframe == OrDefault(a.timeframe, PStr(<<"quarterly">>))
        order == OrDefault(a.order, PStr(<<"desc">>))
    IN IF a.ticker.t # "str" THEN NoUpper(a.ticker)
       ELSE Built(<<"/vX/reference/financials">>,
                  IfTruthy(<<<<"ticker", PStr(Upper(a.ticker.s))>>,
                             <<"timeframe", timeframe>>, <<"order", order>>>>,
                           "limit", a.limit))

\* get_cash_flow sending the ticker as the caller wrote it
get_cash_flow_request_asGiven(a) ==
    LET timeframe == OrDefault(a.timeframe, PStr(<<"quarterly">>))
        order == OrDefault(a.order, PStr(<<"desc">>))
    IN IF a.ticker.t # "str" THEN NoUpper(a.ticker)
       ELSE Built(<<"/vX/reference/financials">>,
                  IfTruthy(<<<<"ticker", a.ticker>>,
                             <<"timeframe", timeframe>>, <<"order", order>>>>,
                           "limit", a.limit))

get_cash_flow_request(a) ==
    LET timeframe == OrDefault(a.timeframe, PStr(<<"quarterly">>))
        order == OrDefault(a.order, PStr(<<"desc">>))
    IN IF a.ticker.t # "str" THEN NoUpper(a.ticker)
       ELSE Built(<<"/vX/reference/financials">>,
                  IfTruthy(<<<<"ticker", PStr(Upper(a.ticker.s))>>,
                             <<"timeframe", timeframe>>, <<"order", order>>>>,
                           "limit", a.limit))

get_market_gainers_losers_request(a) ==
    Built(<<"/v2/snapshot/locale/us/markets/stocks/">> \o StrOf(a.direction),
          IfTruthy(IfTruthyTrue(<<>>, "include_otc", a.include_otc), "limit", a.limit))

get_market_holidays_request(a) == Built(<<"/v1/marketstatus/upcoming">>, <<>>)

get_inflation_data_request(a) ==
    Built(<<"/v1/indicators/inflation">>,
          IfTruthy(IfTruthy(IfTruthy(<<>>,
              "date", a.date), "limit", a.limit), "sort", a.sort))

-----------------------------------------------------------------------------
(* _require_polygon_api_key and _polygon_get *)

_require_polygon_api_key_anyKey(e) == Value(e)

_require_polygon_api_key(e) ==
    IF ~Truthy(e)
    THEN Raised("RuntimeError", <<"POLYGON_API_KEY environment variable is not set">>)
    ELSE Value(e)

\* what requests.get is called with: params is a copy with apiKey set last
polygon_request(path, params, api_key) ==
    [method |-> "GET", url |-> <<"https://api.polygon.io">> \o path,
     params |-> SetItem(params, "apiKey", api_key), timeout |-> 20]

\* requests.get, raise_for_status and response.json() on what the upstream did
polygon_response(o) ==
    CASE o.kind = "timeout" ->
            Raised("ReadTimeout", <<"HTTPSConnectionPool(host='api.polygon.io', port=443): Read timed out. (read timeout=20)">>)
      [] o.kind = "connection" ->
            Raised("ConnectionError", <<"HTTPSConnectionPool(host='api.polygon.io', port=443): Max retries exceeded">>)
      [] o.kind = "response" ->
            IF 400 <= o.status /\ o.status < 500
            THEN Raised("HTTPError", <<ToString(o.status) \o " Client Error">>)
            ELSE IF 500 <= o.status /\ o.status < 600
            THEN Raised("HTTPError", <<ToString(o.status) \o " Server Error">>)
            ELSE IF ~o.json
            THEN Raised("JSONDecodeError", <<"Expecting value: line 1 column 1 (char 0)">>)
            ELSE Value(o.body)

-----------------------------------------------------------------------------
(* What each tool makes of the parsed body *)

TypeName(v) == IF v.t = "None" THEN "NoneType" ELSE v.t
NoGet(v) ==
    Raised("AttributeError", <<"'" \o TypeName(v) \o "' object has no attribute 'get'">>)
NotIterable(v) ==
    Raised("TypeError", <<"'" \o TypeName(v) \o "' object is not iterable">>)
IsNumber(v) == v.t \in {"int", "float", "bool"}
\* the whole seconds of t / 1000, t in milliseconds
MillisToSeconds(v) ==
    CASE v.t = "int" -> v.i \div 1000
      [] v.t = "float" -> (v.m \div 1000) \div 1000
      [] v.t = "bool" -> 0

\* what `for x in v` iterates over (v iterable)
IterOf(v) ==
    CASE v.t = "list" -> v.l
      [] v.t = "dict" -> [i \in DOMAIN v.d |-> PStr(<<v.d[i][1]>>)]
      [] v.t = "str" -> [i \in DOMAIN v.s |-> PStr(<<v.s[i]>>)]
Iterable(v) == v.t \in {"list", "dict", "str"}

\* the closes comprehension of stock_price
ClosePoint(point) ==
    PDict(<<<<"date", PStr(StrfDate(Civil(MillisToSeconds(GetOr(point.d, "t", PInt(0))))))>>,
            <<"close", GetOr(point.d, "c", PNone)>>>>)
RECURSIVE Closes(_)
Closes(l) ==
    IF l = <<>> THEN <<>>
    ELSE IF l[1].t = "dict" THEN <<ClosePoint(l[1])>> \o Closes(Tail(l))
    ELSE Closes(Tail(l))

stock_price_result(a, data) ==
    IF data.t # "dict" THEN NoGet(data)
    ELSE LET got == GetOr(data.d, "results", PList(<<>>))
             results == IF Truthy(got) THEN got ELSE PList(<<>>)
         IN IF ~Iterable(results) THEN NotIterable(results)
            ELSE LET points == IterOf(results)
                 IN IF \E i \in DOMAIN points :
                          /\ points[i].t = "dict"
                          /\ ~IsNumber(GetOr(points[i].d, "t", PInt(0)))
                    THEN Raised("TypeError", <<"unsupported operand type(s) for /">>)
                    ELSE Value(<<"Stock price over the last month for ">>
                                 \o a.stock_ticker.s \o <<": ">>
                                 \o StrOf(PList(Closes(points))))

stock_info_result(a, data) ==
    IF data.t # "dict" THEN NoGet(data)
    ELSE Value(<<"Background information for ">> \o a.stock_ticker.s \o <<": ">>
                 \o StrOf(GetOr(data.d, "results", PDict(<<>>))))

income_statement_result(a, data) ==
    IF data.t # "dict" THEN NoGet(data)
    ELSE LET got == GetOr(data.d, "results", PNone)
             results == IF Truthy(got) THEN got ELSE PList(<<>>)
         IN CASE results.t = "list" ->
                   Value(<<"Income statement for ">> \o a.stock_ticker.s \o <<": ">>
                           \o StrOf(IF results.l # <<>> THEN results.l[1] ELSE PDict(<<>>)))
              [] results.t = "str" ->
                   Value(<<"Income statement for ">> \o a.stock_ticker.s \o <<": ">>
                           \o <<results.s[1]>>)
              [] results.t = "dict" -> Raised("KeyError", <<"0">>)
              [] OTHER ->
                   Raised("TypeError", <<"'" \o TypeName(results) \o "' object is not subscriptable">>)

\* `return json.dumps(data, indent=2)`
passthrough_result_compact(a, data) == Value(<<ReprText(data)>>)

passthrough_result(a, data) == Value(json_dumps(data))

\* the dict keys of the bodies modelled here that contain the letter t
KeysWithT == {"t", "ticker", "status", "results", "market", "type", "active",
              "market_session", "et_time", "currency_name", "composite_figi"}
\* `"t" in result`: a key of a dict, a member of a list, a substring of a str
HasT(result) ==
    CASE result.t = "dict" -> HasKey(result.d, "t")
      [] result.t = "list" -> \E i \in DOMAIN result.l : result.l[i] = PStr(<<"t">>)
      [] result.t = "str" -> Join(result.s) \in KeysWithT
\* `key in data` for the top-level body
Contains(data, key) ==
    CASE data.t = "dict" -> HasKey(data.d, key)
      [] data.t = "list" -> \E i \in DOMAIN data.l : data.l[i] = PStr(<<key>>)
      [] data.t = "str" -> Join(data.s) = key
CanContain(v) == v.t \in {"dict", "list", "str"}

\* the loop body classifying the UTC time itself
AugmentBar_utc(result) ==
    LET utc_time == MillisToSeconds(Get(result.d, "t"))
        et_time == Civil(utc_time)
    IN PDict(SetItem(SetItem(result.d, "market_session",
                PStr(<<_determine_market_session(et_time.hour, et_time.minute)>>)),
                "et_time", PStr(StrfDateTime(et_time, "ET"))))

\* the body of the loop over the bars, for a bar that has "t"
AugmentBar(result) ==
    LET utc_time == MillisToSeconds(Get(result.d, "t"))
        et_time == Civil(utc_time - 5 * 3600)
    IN PDict(SetItem(SetItem(result.d, "market_session",
                PStr(<<_determine_market_session(et_time.hour, et_time.minute)>>)),
                "et_time", PStr(StrfDateTime(et_time, "ET"))))

\* whether the loop body raises on this member of results
BarRaises(result) ==
    \/ ~CanContain(result)
    \/ /\ HasT(result)
       /\ \/ result.t # "dict"
          \/ ~IsNumber(Get(result.d, "t"))

get_intraday_aggregates_result(a, data) ==
    IF ~CanContain(data)
    THEN Raised("TypeError", <<"argument of type '" \o TypeName(data) \o "' is not iterable">>)
    ELSE IF ~Contains(data, "results") THEN Value(json_dumps(data))
    ELSE IF data.t # "dict"
    THEN Raised("TypeError", <<"indices must be integers">>)
    ELSE LET results == Get(data.d, "results")
         IN IF ~Truthy(results) THEN Value(json_dumps(data))
            ELSE IF ~Iterable(results) THEN NotIterable(results)
            ELSE IF \E i \in DOMAIN IterOf(results) : BarRaises(IterOf(results)[i])
            THEN Raised("TypeError", <<"cannot use the member of results as a bar">>)
            ELSE IF results.t # "list" THEN Value(json_dumps(data))
            ELSE Value(json_dumps(PDict(SetItem(data.d, "results",
                    PList([i \in DOMAIN results.l |->
                             IF HasT(results.l[i]) THEN AugmentBar(results.l[i])
                             ELSE results.l[i]])))))

InfoGet(ticker_info, k) == GetOr(ticker_info.d, k, PNone)

\* get_ticker_exchange_info written like the pass-through tools: the body as
\* it came, and the error envelope when there are no results
get_ticker_exchange_info_result_plain(a, data) ==
    IF data.t = "dict" /\ HasKey(data.d, "results") /\ Truthy(Get(data.d, "results"))
    THEN Value(json_dumps(data))
    ELSE Value(<<"Error: ", "No data found for ticker ">> \o a.ticker.s)

get_ticker_exchange_info_result(a, data) ==
    IF ~CanContain(data)
    THEN Raised("TypeError", <<"argument of type '" \o TypeName(data) \o "' is not iterable">>)
    ELSE IF Contains(data, "results") /\ data.t # "dict"
    THEN Raised("TypeError", <<"indices must be integers">>)
    ELSE IF Contains(data, "results") /\ Truthy(Get(data.d, "results"))
    THEN LET ticker_info == Get(data.d, "results")
         IN IF ticker_info.t # "dict" THEN NoGet(ticker_info)
            ELSE Value(json_dumps(PDict(<<
                    <<"ticker", PStr(Upper(a.ticker.s))>>,
                    <<"primary_exchange", InfoGet(ticker_info, "primary_exchange")>>,
                    <<"market", InfoGet(ticker_info, "market")>>,
                    <<"locale", InfoGet(ticker_info, "locale")>>,
                    <<"type", InfoGet(ticker_info, "type")>>,
                    <<"active", InfoGet(ticker_info, "active")>>,
                    <<"currency_name", InfoGet(ticker_info, "currency_name")>>,
                    <<"cik", InfoGet(ticker_info, "cik")>>,
                    <<"composite_figi", InfoGet(ticker_info, "composite_figi")>>,
                    <<"share_class_figi", InfoGet(ticker_info, "share_class_figi")>>,
                    <<"polygon_coverage", PDict(<<
                        <<"data_available", PStr(<<"Real-time trades, quotes, and market events">>)>>,
                        <<"exchange_feed", PStr(<<"Direct feed from primary exchange">>)>>,
                        <<"sip_integration", PStr(<<"Included in consolidated SIP feeds">>)>>,
                        <<"market_sessions", PList(<<PStr(<<"pre_market">>),
                            PStr(<<"regular_market">>), PStr(<<"after_hours">>)>>)>>>>)>>>>)))
    ELSE Value(json_dumps(PDict(<<<<"error",
                  PStr(<<"No data found for ticker ">> \o a.ticker.s)>>>>)))

\* convert_utc_to_et with the offset added the wrong way round
convert_utc_to_et_result_ahead(a) ==
    IF ~IsNumber(a.utc_timestamp)
    THEN Raised("TypeError", <<"an integer is required (got type " \o TypeName(a.utc_timestamp) \o ")">>)
    ELSE LET secs == IF a.utc_timestamp.t = "int" THEN a.utc_timestamp.i
                     ELSE IF a.utc_timestamp.t = "float" THEN a.utc_timestamp.m \div 1000
                     ELSE IF a.utc_timestamp.b THEN 1 ELSE 0
             utc_dt == Civil(secs)
             et_dt == Civil(secs + 5 * 3600)
         IN Value(json_dumps(PDict(<<
                <<"utc_timestamp", a.utc_timestamp>>,
                <<"utc_datetime", PStr(StrfDateTime(utc_dt, "UTC"))>>,
                <<"et_datetime", PStr(StrfDateTime(et_dt, "ET"))>>,
                <<"market_session",
                  PStr(<<_determine_market_session(et_dt.hour, et_dt.minute)>>)>>>>)))

\* convert_utc_to_et: no upstream request
convert_utc_to_et_result(a) ==
    IF ~IsNumber(a.utc_timestamp)
    THEN Raised("TypeError", <<"an integer is required (got type " \o TypeName(a.utc_timestamp) \o ")">>)
    ELSE LET secs == IF a.utc_timestamp.t = "int" THEN a.utc_timestamp.i
                     ELSE IF a.utc_timestamp.t = "float" THEN a.utc_timestamp.m \div 1000
                     ELSE IF a.utc_timestamp.b THEN 1 ELSE 0
             utc_dt == Civil(secs)
             et_dt == Civil(secs - 5 * 3600)
         IN Value(json_dumps(PDict(<<
                <<"utc_timestamp", a.utc_timestamp>>,
                <<"utc_datetime", PStr(StrfDateTime(utc_dt, "UTC"))>>,
                <<"et_datetime", PStr(StrfDateTime(et_dt, "ET"))>>,
                <<"market_session",
                  PStr(<<_determine_market_session(et_dt.hour, et_dt.minute)>>)>>>>)))

-----------------------------------------------------------------------------
(* The documents of the tools that return a literal *)

\* the literal market_hours of get_market_hours_info
get_market_hours_info_document ==
    PDict(<<
        <<"pre_market", PDict(<<
            <<"start", PStr(<<"04:00">>)>>,
            <<"end", PStr(<<"09:30">>)>>,
            <<"timezone", PStr(<<"ET">>)>>>>)>>,
        <<"regular_market", PDict(<<
            <<"start", PStr(<<"09:30">>)>>,
            <<"end", PStr(<<"16:00">>)>>,
            <<"timezone", PStr(<<"ET">>)>>>>)>>,
        <<"after_hours", PDict(<<
            <<"start", PStr(<<"16:00">>)>>,
            <<"end", PStr(<<"20:00">>)>>,
            <<"timezone", PStr(<<"ET">>)>>>>)>>,
        <<"important_notes", PList(<<
            PStr(<<"All Polygon timestamps are in UTC (Unix timestamps)">>),
            PStr(<<"Convert UTC to ET for market hour alignment">>),
            PStr(<<"Pre-market: 4:00 AM - 9:30 AM ET">>),
            PStr(<<"Regular market: 9:30 AM - 4:00 PM ET">>),
            PStr(<<"After-hours: 4:00 PM - 8:00 PM ET">>)>>)>>>>)

\* the literal exchanges of get_exchange_info
get_exchange_info_document ==
    PDict(<<
        <<"major_exchanges", PList(<<
            PDict(<<
                <<"name", PStr(<<"New York Stock Exchange">>)>>,
                <<"symbols", PList(<<
                    PStr(<<"NYSE">>),
                    PStr(<<"NYSE American">>),
                    PStr(<<"NYSE Arca">>),
                    PStr(<<"NYSE Chicago">>),
                    PStr(<<"NYSE National">>)>>)>>>>),
            PDict(<<
                <<"name", PStr(<<"Nasdaq">>)>>,
                <<"symbols", PList(<<
                    PStr(<<"OMX">>),
                    PStr(<<"BX">>),
                    PStr(<<"PSX">>),
                    PStr(<<"Philadelphia">>)>>)>>>>),
            PDict(<<
                <<"name", PStr(<<"Cboe Global Markets">>)>>,
                <<"symbols", PList(<<
                    PStr(<<"BZX">>),
                    PStr(<<"BYX">>),
                    PStr(<<"EDGX">>),
                    PStr(<<"EDGA">>)>>)>>>>),
            PDict(<<
                <<"name", PStr(<<"MIAX Exchange Group">>)>>,
                <<"symbols", PList(<<
                    PStr(<<"Pearl">>),
                    PStr(<<"Emerald">>),
                    PStr(<<"Equities">>)>>)>>>>),
            PDict(<<
                <<"name", PStr(<<"Members Exchange">>)>>,
                <<"symbols", PList(<<
                    PStr(<<"MEMX">>)>>)>>>>),
            PDict(<<
                <<"name", PStr(<<"Investors Exchange">>)>>,
                <<"symbols", PList(<<
                    PStr(<<"IEX">>)>>)>>>>),
            PDict(<<
                <<"name", PStr(<<"Long-Term Stock Exchange">>)>>,
                <<"symbols", PList(<<
                    PStr(<<"LTSE">>)>>)>>>>)>>)>>,
        <<"additional_sources", PList(<<
            PDict(<<
                <<"name", PStr(<<"FINRA Trading Facilities">>)>>,
                <<"description", PStr(<<"Provides trade reporting but not quotes">>)>>,
                <<"facilities", PList(<<
                    PStr(<<"FINRA NYSE TRF">>),
                    PStr(<<"FINRA Nasdaq TRF Carteret">>),
                    PStr(<<"FINRA Nasdaq TRF Chicago">>)>>)>>>>),
            PDict(<<
                <<"name", PStr(<<"OTC Reporting Facility">>)>>,
                <<"description", PStr(<<"Captures OTC trades but not quotes">>)>>>>)>>)>>,
        <<"total_coverage", PStr(<<"19 major stock exchanges + dark pools + FINRA + OTC">>)>>,
        <<"data_quality", PStr(<<"Direct exchange feeds + SIP consolidation for accuracy">>)>>>>)

\* the literal sip_info of get_sip_info
get_sip_info_document ==
    PDict(<<
        <<"what_are_sips", PStr(<<"Securities Information Processors (SIPs) consolidate trade and quote data from all exchanges into a single feed">>)>>,
        <<"sip_functions", PList(<<
            PStr(<<"Provide National Best Bid and Offer (NBBO)">>),
            PStr(<<"Consolidate last sale data">>),
            PStr(<<"Ensure equal access to market data">>),
            PStr(<<"Maintain transparent and fair trading environment">>)>>)>>,
        <<"major_sips", PList(<<
            PDict(<<
                <<"name", PStr(<<"Consolidated Tape Association (CTA)">>)>>,
                <<"coverage", PStr(<<"NYSE-listed and regional exchange securities">>)>>,
                <<"tapes", PList(<<
                    PStr(<<"Tape A">>),
                    PStr(<<"Tape B">>)>>)>>>>),
            PDict(<<
                <<"name", PStr(<<"Unlisted Trading Privileges (UTP)">>)>>,
                <<"coverage", PStr(<<"All Nasdaq-listed securities">>)>>,
                <<"tapes", PList(<<
                    PStr(<<"Tape C">>)>>)>>>>)>>)>>,
        <<"data_flow", PList(<<
            PStr(<<"Exchanges ", "\\u2192", " SIPs ", "\\u2192", " Polygon.io ", "\\u2192", " Users">>),
            PStr(<<"Direct exchange feeds + SIP consolidation">>),
            PStr(<<"Alternative Trading Systems (ATS) report to FINRA within 10 seconds">>)>>)>>,
        <<"importance", PStr(<<"SIPs are vital infrastructure ensuring all market participants have equal access to trade and quote data">>)>>>>)

\* the literal coverage_info of get_market_data_coverage
get_market_data_coverage_document ==
    PDict(<<
        <<"infrastructure", PDict(<<
            <<"primary_facility", PStr(<<"Equinix Data Center, New Jersey">>)>>,
            <<"redundancy", PStr(<<"ORD11 data center, Chicago">>)>>,
            <<"co_location", PStr(<<"Strategically co-located with exchanges">>)>>,
            <<"benefits", PList(<<
                PStr(<<"Reduced latency">>),
                PStr(<<"Enhanced reliability">>),
                PStr(<<"Direct physical connections">>)>>)>>>>)>>,
        <<"data_sources", PDict(<<
            <<"exchanges", PStr(<<"All 19 major U.S. stock exchanges">>)>>,
            <<"dark_pools", PStr(<<"Additional dark pool data">>)>>,
            <<"finra", PStr(<<"FINRA trading facilities">>)>>,
            <<"otc", PStr(<<"OTC markets">>)>>,
            <<"ats", PStr(<<"Alternative Trading Systems">>)>>>>)>>,
        <<"data_quality", PDict(<<
            <<"direct_feeds", PStr(<<"Direct relationships with each exchange">>)>>,
            <<"licensing", PStr(<<"Compliance with all licensing requirements">>)>>,
            <<"sip_integration", PStr(<<"Combines direct exchange access with regulated SIP consolidation">>)>>,
            <<"coverage", PStr(<<"Every trade, quote, and market event as it occurs">>)>>>>)>>,
        <<"regulatory_compliance", PDict(<<
            <<"personal_use", PStr(<<"Full U.S. feed available for non-industry professionals">>)>>,
            <<"business_clients", PStr(<<"Tailored plans with specific exchange licensing">>)>>,
            <<"monitoring", PStr(<<"Close compliance monitoring for appropriate usage">>)>>>>)>>,
        <<"market_hours", PDict(<<
            <<"pre_market", PStr(<<"4:00 AM - 9:30 AM ET">>)>>,
            <<"regular_market", PStr(<<"9:30 AM - 4:00 PM ET">>)>>,
            <<"after_hours", PStr(<<"4:00 PM - 8:00 PM ET">>)>>,
            <<"timestamp_format", PStr(<<"Unix timestamps (UTC)">>)>>>>)>>>>)

-----------------------------------------------------------------------------
(* The module-level statements of server.py, in source order *)

Statements ==
    <<"stock_price", "stock_info", "income_statement", "get_aggregates",
      "get_previous_close", "get_last_trade", "get_last_quote",
      "get_snapshot_ticker", "get_market_status", "search_tickers",
      "get_ticker_news", "get_dividends", "get_splits", "get_treasury_yields",
      "__main__",
      "get_market_hours_info", "convert_utc_to_et", "get_exchange_info",
      "get_intraday_aggregates", "get_sip_info", "get_market_data_coverage",
      "get_ticker_exchange_info", "get_earnings", "get_analyst_ratings",
      "get_short_interest", "get_options_contracts", "get_options_snapshot",
      "get_balance_sheet", "get_cash_flow", "get_market_gainers_losers",
      "get_market_holidays", "get_inflation_data">>

\* every function the module decorates with @mcp.tool()
AllTools == {Statements[i] : i \in DOMAIN Statements} \ {"__main__"}

StaticTools == {"get_market_hours_info", "get_exchange_info", "get_sip_info",
                "get_market_data_coverage"}
\* the tools whose body is not wrapped in try/except
NoTryTools == {"stock_price", "stock_info", "income_statement"} \cup StaticTools
\* the tools that call _polygon_get
UpstreamTools == AllTools \ (StaticTools \cup {"convert_utc_to_et"})

RequestOf(tool, a, now) ==
    CASE tool = "stock_price" -> stock_price_request(a, now)
      [] tool = "stock_info" -> stock_info_request(a)
      [] tool = "income_statement" -> income_statement_request(a)
      [] tool = "get_aggregates" -> get_aggregates_request(a)
      [] tool = "get_previous_close" -> get_previous_close_request(a)
      [] tool = "get_last_trade" -> get_last_trade_request(a)
      [] tool = "get_last_quote" -> get_last_quote_request(a)
      [] tool = "get_snapshot_ticker" -> get_snapshot_ticker_request(a)
      [] tool = "get_market_status" -> get_market_status_request(a)
      [] tool = "search_tickers" -> search_tickers_request(a)
      [] tool = "get_ticker_news" -> get_ticker_news_request(a)
      [] tool = "get_dividends" -> get_dividends_request(a)
      [] tool = "get_splits" -> get_splits_request(a)
      [] tool = "get_treasury_yields" -> get_treasury_yields_request(a)
      [] tool = "get_intraday_aggregates" -> get_intraday_aggregates_request(a)
      [] tool = "get_ticker_exchange_info" -> get_ticker_exchange_info_request(a)
      [] tool = "get_earnings" -> get_earnings_request(a)
      [] tool = "get_analyst_ratings" -> get_analyst_ratings_request(a)
      [] tool = "get_short_interest" -> get_short_interest_request(a)
      [] tool = "get_options_contracts" -> get_options_contracts_request(a)
      [] tool = "get_options_snapshot" -> get_options_snapshot_request(a)
      [] tool = "get_balance_sheet" -> get_balance_sheet_request(a)
      [] tool = "get_cash_flow" -> get_cash_flow_request(a)
      [] tool = "get_market_gainers_losers" -> get_market_gainers_losers_request(a)
      [] tool = "get_market_holidays" -> get_market_holidays_request(a)
      [] tool = "get_inflation_data" -> get_inflation_data_request(a)

ResultOf(tool, a, data) ==
    CASE tool = "stock_price" -> stock_price_result(a, data)
      [] tool = "stock_info" -> stock_info_result(a, data)
      [] tool = "income_statement" -> income_statement_result(a, data)
      [] tool = "get_intraday_aggregates" -> get_intraday_aggregates_result(a, data)
      [] tool = "get_ticker_exchange_info" -> get_ticker_exchange_info_result(a, data)
      [] OTHER -> passthrough_result(a, data)

\* get_sip_info returning the literal of get_market_data_coverage
StaticDocument_swapped(tool) ==
    CASE tool = "get_market_hours_info" -> get_market_hours_info_document
      [] tool = "get_exchange_info" -> get_exchange_info_document
      [] tool = "get_sip_info" -> get_market_data_coverage_document
      [] tool = "get_market_data_coverage" -> get_market_data_coverage_document

StaticDocument(tool) ==
    CASE tool = "get_market_hours_info" -> get_market_hours_info_document
      [] tool = "get_exchange_info" -> get_exchange_info_document
      [] tool = "get_sip_info" -> get_sip_info_document
      [] tool = "get_market_data_coverage" -> get_market_data_coverage_document

\* what the caller of a tool gets: a returned str or a raised exception
NoResult == [kind |-> "none"]
Returned(text) == [kind |-> "return", text |-> text]
Raises(r) == [kind |-> "raise", exc |-> r.exc, msg |-> r.msg]

\* `except Exception as e: return f"Error: {str(e)}"` where the tool has it
ToolBoundary(tool, r) ==
    IF r.ok THEN Returned(r.v)
    ELSE IF tool \in NoTryTools THEN Raises(r)
    ELSE Returned(<<"Error: ">> \o r.msg)

-----------------------------------------------------------------------------
(* Inputs *)

\* the largest limit / frequency a caller passes
MaxLimit == 1
\* the most bars an upstream results list holds
MaxBars == 1

TickerTexts == {<<"n", "v", "d", "a">>, <<"B", "r", "k", ".", "b">>}
RequiredTicker == {PStr(x) : x \in TickerTexts} \cup {PNone}
OptionalTicker == {PStr(x) : x \in TickerTexts} \cup {PNone, PStr(<<>>)}
OptInt == {PNone} \cup {PInt(i) : i \in 0..MaxLimit}
OptBool == {PNone, PBool(TRUE), PBool(FALSE)}
OptFloat == {PNone, PFloat(0), PFloat(150500)}
OptText(x) == {PNone, PStr(<<>>), PStr(<<x>>)}
SomeText(x) == {PNone, PStr(<<x>>)}

\* 2024-01-15 and 2024-03-15, as days since the epoch
SampleDays == {19737, 19797}
\* the ways a caller writes a day: ISO date, epoch seconds, datetime, date,
\* and an ISO-8601 date-time string
DateForms(day) ==
    {PStr(StrfDate(Civil(day * 86400))), PInt(day * 86400),
     PDateTime(day * 86400 + 34200), PDate(day),
     PStr(<<Join(StrfDate(Civil(day * 86400))) \o "T09:30:00">>)}
FromDates == DateForms(19737)
ToDates == {PStr(StrfDate(Civil(19797 * 86400))), PDate(19797)}
\* datetime.now(timezone.utc), in seconds
Clock == {day * 86400 + 3600 : day \in SampleDays}
\* only stock_price reads the clock
ClockRead(tool) == IF tool = "stock_price" THEN Clock ELSE {0}

ArgSets(tool) ==
    CASE tool \in {"stock_price", "stock_info", "income_statement"} ->
            [stock_ticker : RequiredTicker]
      [] tool = "get_aggregates" ->
            [ticker : RequiredTicker, multiplier : {PInt(1)},
             timespan : {PStr(<<"day">>)}, from_date : FromDates, to_date : ToDates,
             adjusted : OptBool, sort : OptText("asc"), limit : OptInt]
      [] tool = "get_intraday_aggregates" ->
            [ticker : RequiredTicker, multiplier : {PInt(5)},
             timespan : {PStr(<<"minute">>)}, from_date : FromDates, to_date : ToDates,
             adjusted : OptBool, sort : OptText("asc"), limit : OptInt,
             include_otc : {PBool(FALSE), PBool(TRUE)}]
      [] tool = "get_previous_close" -> [ticker : RequiredTicker, adjusted : OptBool]
      [] tool \in {"get_last_trade", "get_last_quote", "get_ticker_exchange_info"} ->
            [ticker : RequiredTicker]
      [] tool = "get_snapshot_ticker" ->
            [market_type : {PStr(<<"stocks">>)}, ticker : RequiredTicker]
      [] tool \in {"get_market_status", "get_market_holidays"} \cup StaticTools ->
            {[none |-> PNone]}
      [] tool = "search_tickers" ->
            [search : OptText("nvidia"), type : SomeText("CS"),
             market : SomeText("stocks"), active : OptBool, limit : OptInt,
             sort : OptText("ticker"), order : OptText("asc")]
      [] tool = "get_ticker_news" ->
            [ticker : OptionalTicker, published_utc : SomeText("2024-01-15"),
             limit : OptInt, sort : OptText("published_utc"), order : OptText("asc")]
      [] tool = "get_dividends" ->
            [ticker : OptionalTicker, ex_dividend_date : SomeText("2024-01-15"),
             frequency : OptInt, dividend_type : OptText("CD"), limit : OptInt]
      [] tool = "get_splits" ->
            [ticker : OptionalTicker, execution_date : OptText("2024-01-15"),
             reverse_split : OptBool, limit : OptInt]
      [] tool = "get_treasury_yields" ->
            [date : OptText("2024-01-15"), limit : OptInt,
             sort : OptText("date"), order : OptText("asc")]
      [] tool \in {"get_earnings", "get_analyst_ratings"} ->
            [ticker : OptionalTicker, date : SomeText("2024-01-15"), limit : OptInt,
             sort : OptText("date"), order : OptText("asc")]
      [] tool = "get_short_interest" ->
            [ticker : OptionalTicker, settlement_date : SomeText("2024-01-15"),
             limit : OptInt, sort : OptText("ticker"), order : OptText("asc")]
      [] tool = "get_options_contracts" ->
            [underlying_asset : RequiredTicker, contract_type : OptText("call"),
             strike_price : OptFloat, expiration_date : SomeText("2024-03-15"),
             limit : OptInt]
      [] tool = "get_options_snapshot" ->
            [underlying_asset : RequiredTicker, strike_price : OptFloat,
             expiration_date : OptText("2024-03-15"), contract_type : OptText("put")]
      [] tool \in {"get_balance_sheet", "get_cash_flow"} ->
            [ticker : RequiredTicker,
             timeframe : {Omitted, PStr(<<"quarterly">>), PStr(<<"annual">>)},
             limit : OptInt, order : {Omitted, PStr(<<"desc">>), PStr(<<"asc">>)}]
      [] tool = "get_market_gainers_losers" ->
            [direction : {PStr(<<"gainers">>), PStr(<<"losers">>)},
             include_otc : {PBool(FALSE), PBool(TRUE)}, limit : OptInt]
      [] tool = "get_inflation_data" ->
            [date : OptText("2024-01-15"), limit : OptInt, sort : OptText("date")]
      [] tool = "convert_utc_to_et" ->
            [utc_timestamp : {PInt(0), PInt(14400), PInt(17999), PInt(18000),
                              PInt(52200), PInt(75600), PInt(1705329000), PNone}]

\* aggregate bars: t is milliseconds since the epoch
BarSamples ==
    {PDict(<<<<"t", PInt(52200000)>>, <<"c", PFloat(101500)>>>>),
     PDict(<<<<"c", PInt(7)>>>>),
     PDict(<<<<"market_session", PStr(<<"upstream">>)>>, <<"t", PInt(10800000)>>>>),
     PDict(<<<<"t", PNone>>>>)}
BarLists == UNION {[1..n -> BarSamples] : n \in 1..MaxBars}

\* the JSON bodies the upstream answers with
Bodies ==
    {PDict(<<>>),
     PDict(<<<<"status", PStr(<<"OK">>)>>, <<"results", PList(<<>>)>>>>),
     PDict(<<<<"results", PDict(<<<<"ticker", PStr(<<"NVDA">>)>>,
                                  <<"primary_exchange", PStr(<<"XNAS">>)>>,
                                  <<"active", PBool(TRUE)>>,
                                  <<"cik", PNone>>>>)>>,
             <<"status", PStr(<<"OK">>)>>>>),
     PDict(<<<<"results", PDict(<<<<"name", PStr(<<"Nvidia">>)>>>>)>>>>),
     PDict(<<<<"results", PList(<<PInt(1)>>)>>>>)}
    \cup {PDict(<<<<"ticker", PStr(<<"NVDA">>)>>, <<"results", PList(l)>>>>) :
            l \in BarLists}

Outcomes ==
    {[kind |-> "response", status |-> 200, json |-> TRUE, body |-> b] : b \in Bodies}
    \cup {[kind |-> "response", status |-> 200, json |-> FALSE, body |-> PNone],
          [kind |-> "response", status |-> 500, json |-> FALSE, body |-> PNone],
          [kind |-> "response", status |-> 404, json |-> TRUE,
           body |-> PDict(<<<<"status", PStr(<<"NOT_FOUND">>)>>>>)],
          [kind |-> "timeout"], [kind |-> "connection"]}

EnvValues == {PNone, PStr(<<>>), PStr(<<"k3y">>)}

Callers == {"c1"}

-----------------------------------------------------------------------------
(* scripts/health_check.py: the probe of the server's /health endpoint *)

DigitChars == {"0", "1", "2", "3", "4", "5", "6", "7", "8", "9"}
DigitOf(c) ==
    CASE c = "0" -> 0 [] c = "1" -> 1 [] c = "2" -> 2 [] c = "3" -> 3 [] c = "4" -> 4
      [] c = "5" -> 5 [] c = "6" -> 6 [] c = "7" -> 7 [] c = "8" -> 8 [] c = "9" -> 9
RECURSIVE DigitsValue(_)
DigitsValue(s) ==
    IF s = <<>> THEN 0 ELSE DigitsValue(SubSeq(s, 1, Len(s) - 1)) * 10 + DigitOf(s[Len(s)])
\* str.strip() of the blanks around a text of one-character chunks
RECURSIVE Strip(_)
Strip(s) ==
    IF s # <<>> /\ s[1] = " " THEN Strip(Tail(s))
    ELSE IF s # <<>> /\ s[Len(s)] = " " THEN Strip(SubSeq(s, 1, Len(s) - 1))
    ELSE s
\* int(v) for an int or a str of one-character chunks: blanks around, an
\* optional sign, then decimal digits
IntOf(v) ==
    IF v.t = "int" THEN Value(v.i)
    ELSE LET t == Strip(v.s)
             signed == t # <<>> /\ t[1] \in {"+", "-"}
             digits == IF signed THEN Tail(t) ELSE t
         IN IF digits # <<>> /\ \A i \in DOMAIN digits : digits[i] \in DigitChars
            THEN Value(IF signed /\ t[1] = "-" THEN 0 - DigitsValue(digits)
                       ELSE DigitsValue(digits))
            ELSE Raised("ValueError",
                        <<"invalid literal for int() with base 10: '" \o Join(v.s) \o "'">>)

\* os.environ.get("PORT", 8000)
PortSetting(p) == IF p = PNone THEN PInt(8000) ELSE p
\* f"http://localhost:{port}/health"
health_url(port) == <<"http://localhost:", ToString(port), "/health">>

\* 2xx counted as healthy
check_health_result_any2xx(o) ==
    o.kind = "response" /\ o.status \in 200..299

\* what check_health returns once requests.get has completed with o: True for
\* status 200, False for another status and in each except clause
check_health_result(o) ==
    o.kind = "response" /\ o.status = 200

\* the values of PORT in the probe's environment (PNone: unset)
HealthPorts ==
    {PNone, PStr(<<"8", "0", "8", "0">>), PStr(<<" ", "9", "0", "0", "0">>),
     PStr(<<"0", "8", "0", "0", "0">>), PStr(<<"w", "e", "b">>), PStr(<<>>),
     PStr(<<"8", "0", ".", "5">>)}
HealthStatuses == {200, 201, 202, 204, 206, 302, 304, 400, 401, 403, 404, 500, 502, 503}
\* what requests.get(url, timeout=5) does
HealthOutcomes ==
    {[kind |-> "response", status |-> st] : st \in HealthStatuses}
    \cup {[kind |-> "connection"], [kind |-> "timeout"], [kind |-> "other"]}

HealthIdle == [pc |-> "off", port |-> PNone, sent |-> <<>>,
               outcome |-> [kind |-> "none"], returned |-> FALSE, code |-> -1]

-----------------------------------------------------------------------------
(* State and actions *)

Idle == [pc |-> "idle", tool |-> "", args |-> [none |-> PNone], now |-> 0,
         sent |-> <<>>, outcome |-> [kind |-> "none"], result |-> NoResult]

Init ==
    /\ env \in EnvValues
    /\ isMain \in BOOLEAN
    /\ loadPos = 0
    /\ registry = {}
    /\ serving = "no"
    /\ call = [c \in Callers |-> Idle]
    /\ hour = 0 /\ minute = 0 /\ session = "none"
    /\ health = HealthIdle

Loaded == loadPos = Len(Statements)
NextStatement == Statements[loadPos + 1]

\* the next decorated definition executes: @mcp.tool() registers it
LoadTool ==
    /\ ~Loaded /\ NextStatement # "__main__"
    /\ registry' = registry \cup {NextStatement}
    /\ loadPos' = loadPos + 1
    /\ UNCHANGED <<env, isMain, serving, call, hour, minute, session, health>>

\* `if __name__ == "__main__":` when the module is imported
SkipMain ==
    /\ ~Loaded /\ NextStatement = "__main__" /\ ~isMain
    /\ loadPos' = loadPos + 1
    /\ UNCHANGED <<env, isMain, registry, serving, call, hour, minute, session, health>>

\* mcp.run(...) is called and blocks, serving the registered tools
McpRun ==
    /\ ~Loaded /\ NextStatement = "__main__" /\ isMain /\ serving = "no"
    /\ serving' = "running"
    /\ UNCHANGED <<env, isMain, loadPos, registry, call, hour, minute, session, health>>

\* mcp.run returns (the transport closed); the module body resumes
McpRunReturns ==
    /\ serving = "running"
    /\ \A c \in Callers : call[c].pc = "idle"
    /\ serving' = "returned"
    /\ loadPos' = loadPos + 1
    /\ UNCHANGED <<env, isMain, registry, call, hour, minute, session, health>>

\* a tool function can be called: through the running server, or by an importer
Callable(tool) ==
    /\ tool \in registry
    /\ serving = "running" \/ (~isMain /\ Loaded)

\* the tool runs up to its return, or up to requests.get
Invoke(c, tool, a, now) ==
    /\ call[c].pc = "idle"
    /\ Callable(tool)
    /\ LET started == [Idle EXCEPT !.tool = tool, !.args = a, !.now = now]
           done(r) == [started EXCEPT !.pc = "done", !.result = ToolBoundary(tool, r)]
       IN call' = [call EXCEPT ![c] =
            IF tool \in StaticTools THEN done(Value(json_dumps(StaticDocument(tool))))
            ELSE IF tool = "convert_utc_to_et" THEN done(convert_utc_to_et_result(a))
            ELSE LET b == RequestOf(tool, a, now)
                     k == _require_polygon_api_key(env)
                 IN IF ~b.ok THEN done(b)
                    ELSE IF ~k.ok THEN done(k)
                    ELSE [started EXCEPT !.pc = "waiting",
                            !.sent = <<polygon_request(b.path, b.params, k.v)>>]]
    /\ UNCHANGED <<env, isMain, loadPos, registry, serving, hour, minute, session, health>>

\* requests.get completes; a timeout is answered with a second GET
Respond_retry(c, o) ==
    /\ call[c].pc = "waiting"
    /\ LET r == polygon_response(o)
           cur == call[c]
       IN call' = [call EXCEPT ![c] =
            IF o.kind = "timeout" /\ Len(cur.sent) = 1
            THEN [cur EXCEPT !.sent = cur.sent \o cur.sent]
            ELSE [cur EXCEPT !.pc = "done", !.outcome = o,
                             !.result = ToolBoundary(cur.tool,
                                 IF r.ok THEN ResultOf(cur.tool, cur.args, r.v) ELSE r)]]
    /\ UNCHANGED <<env, isMain, loadPos, registry, serving, hour, minute, session, health>>

\* requests.get completes; the parsed body is kept in one place for all
\* invocations, so an answer that arrives replaces the one another invocation
\* is holding
Respond_sharedBody(c, o) ==
    /\ call[c].pc = "waiting"
    /\ LET r == polygon_response(o)
           cur == call[c]
       IN call' = [d \in DOMAIN call |->
            IF d = c
            THEN [cur EXCEPT !.pc = "done", !.outcome = o,
                             !.result = ToolBoundary(cur.tool,
                                 IF r.ok THEN ResultOf(cur.tool, cur.args, r.v) ELSE r)]
            ELSE IF call[d].pc = "done" /\ call[d].outcome.kind = "response" /\ r.ok
            THEN [call[d] EXCEPT !.result = ToolBoundary(call[d].tool,
                                     ResultOf(call[d].tool, call[d].args, r.v))]
            ELSE call[d]]
    /\ UNCHANGED <<env, isMain, loadPos, registry, serving, hour, minute, session, health>>

\* requests.get completes; the tool runs to its return
Respond(c, o) ==
    /\ call[c].pc = "waiting"
    /\ LET r == polygon_response(o)
           cur == call[c]
       IN call' = [call EXCEPT ![c] =
            [cur EXCEPT !.pc = "done", !.outcome = o,
                        !.result = ToolBoundary(cur.tool,
                            IF r.ok THEN ResultOf(cur.tool, cur.args, r.v) ELSE r)]]
    /\ UNCHANGED <<env, isMain, loadPos, registry, serving, hour, minute, session, health>>

\* the caller has its result; the invocation's objects are dropped
Finish(c) ==
    /\ call[c].pc = "done"
    /\ call' = [call EXCEPT ![c] = Idle]
    /\ UNCHANGED <<env, isMain, loadPos, registry, serving, hour, minute, session, health>>

Next ==
    \/ LoadTool
    \/ SkipMain
    \/ McpRun
    \/ McpRunReturns
    \/ \E c \in Callers :
          /\ call[c].pc = "idle"
          /\ \E tool \in {t \in AllTools : Callable(t)} :
                \E a \in ArgSets(tool), now \in ClockRead(tool) : Invoke(c, tool, a, now)
    \/ \E c \in Callers :
          /\ call[c].pc = "waiting"
          /\ \E o \in Outcomes : Respond(c, o)
    \/ \E c \in Callers : Finish(c)

Spec == Init /\ [][Next]_vars

-----------------------------------------------------------------------------
(* scripts/health_check.py run as a program *)

InitHealth ==
    /\ health \in {[HealthIdle EXCEPT !.pc = "start", !.port = p] : p \in HealthPorts}
    /\ env = PNone /\ isMain = FALSE /\ loadPos = 0 /\ registry = {}
    /\ serving = "no" /\ call = [c \in Callers |-> Idle]
    /\ hour = 0 /\ minute = 0 /\ session = "none"

\* check_health up to requests.get: int(PORT) raises into `except Exception`
HealthGet ==
    /\ health.pc = "start"
    /\ LET port == IntOf(PortSetting(health.port))
       IN health' = IF port.ok
                    THEN [health EXCEPT !.pc = "waiting", !.sent = <<health_url(port.v)>>]
                    ELSE [health EXCEPT !.pc = "returned", !.returned = FALSE]
    /\ UNCHANGED <<env, isMain, loadPos, registry, serving, call, hour, minute, session>>

\* requests.get completes; check_health returns
HealthRespond(o) ==
    /\ health.pc = "waiting"
    /\ health' = [health EXCEPT !.pc = "returned", !.outcome = o,
                                !.returned = check_health_result(o)]
    /\ UNCHANGED <<env, isMain, loadPos, registry, serving, call, hour, minute, session>>

\* sys.exit(0) if check_health() else sys.exit(1)
HealthExit ==
    /\ health.pc = "returned"
    /\ health' = [health EXCEPT !.pc = "exited", !.code = IF health.returned THEN 0 ELSE 1]
    /\ UNCHANGED <<env, isMain, loadPos, registry, serving, call, hour, minute, session>>

NextHealth ==
    \/ HealthGet
    \/ \E o \in HealthOutcomes : HealthRespond(o)
    \/ HealthExit

SpecHealth == InitHealth /\ [][NextHealth]_vars

-----------------------------------------------------------------------------
(* _determine_market_session on its own, over every hour and minute *)

InitSession ==
    /\ hour \in 0..23 /\ minute \in 0..59 /\ session = "none"
    /\ env = PNone /\ isMain = FALSE /\ loadPos = 0 /\ registry = {}
    /\ serving = "no" /\ call = [c \in Callers |-> Idle]
    /\ health = HealthIdle

Classify ==
    /\ session = "none"
    /\ session' = _determine_market_session(hour, minute)
    /\ UNCHANGED <<env, isMain, loadPos, registry, serving, call, hour, minute, health>>

NextSession == Classify

SpecSession == InitSession /\ [][NextSession]_vars

-----------------------------------------------------------------------------
(* Vocabulary of the properties *)

StartsWithError(text) == Len(text) >= 1 /\ text[1] = "Error: "
HasRequest(c) == call[c].sent # <<>>
Req(c) == call[c].sent[1]
IsDone(c) == call[c].pc = "done"
\* the upstream answered 2xx with a JSON body
AnsweredBody(c) ==
    /\ IsDone(c) /\ call[c].outcome.kind = "response"
    /\ call[c].outcome.status \in 200..299 /\ call[c].outcome.json
\* the invocation failed: its request could not be built or sent, or the
\* upstream did not answer 2xx with JSON
InvocationFailed(c) ==
    /\ IsDone(c) /\ call[c].tool \in UpstreamTools
    /\ \/ ~HasRequest(c)
       \/ call[c].outcome.kind \in {"timeout", "connection"}
       \/ /\ call[c].outcome.kind = "response"
          /\ call[c].outcome.status \notin 200..299 \/ ~call[c].outcome.json

\* the parameters each signature declares with the default None
OptionalParams(tool) ==
    CASE tool \in {"get_aggregates", "get_intraday_aggregates"} ->
            {"adjusted", "sort", "limit"}
      [] tool = "get_previous_close" -> {"adjusted"}
      [] tool = "search_tickers" ->
            {"search", "type", "market", "active", "limit", "sort", "order"}
      [] tool = "get_ticker_news" ->
            {"ticker", "published_utc", "limit", "sort", "order"}
      [] tool = "get_dividends" ->
            {"ticker", "ex_dividend_date", "frequency", "dividend_type", "limit"}
      [] tool = "get_splits" -> {"ticker", "execution_date", "reverse_split", "limit"}
      [] tool = "get_treasury_yields" -> {"date", "limit", "sort", "order"}
      [] tool \in {"get_earnings", "get_analyst_ratings"} ->
            {"ticker", "date", "limit", "sort", "order"}
      [] tool = "get_short_interest" ->
            {"ticker", "settlement_date", "limit", "sort", "order"}
      [] tool = "get_options_contracts" ->
            {"contract_type", "strike_price", "expiration_date", "limit"}
      [] tool = "get_options_snapshot" ->
            {"strike_price", "expiration_date", "contract_type"}
      [] tool \in {"get_balance_sheet", "get_cash_flow", "get_market_gainers_losers"} ->
            {"limit"}
      [] tool = "get_inflation_data" -> {"date", "limit", "sort"}
      [] OTHER -> {}

\* the query keys a tool's builder sets whatever the caller passes
BuilderKeys(tool) ==
    CASE tool = "stock_price" -> {"adjusted", "sort", "limit"}
      [] tool = "income_statement" -> {"ticker", "timeframe", "limit", "order"}
      [] tool \in {"get_balance_sheet", "get_cash_flow"} -> {"ticker", "timeframe", "order"}
      [] OTHER -> {}

-----------------------------------------------------------------------------
(* C1 *)

\* C1: every failed invocation of a tool returns a string that starts with
\* "Error: ", and no invocation of any tool raises to its caller.
C1_FailureIsErrorString ==
    \A c \in Callers :
        /\ call[c].result.kind # "raise"
        /\ InvocationFailed(c) =>
              call[c].result.kind = "return" /\ StartsWithError(call[c].result.text)

-----------------------------------------------------------------------------
(* C2 *)

\* C2: when server.py runs as the main program, every tool the module defines
\* is in the registry while mcp.run is serving.
C2_CatalogRegisteredBeforeServing ==
    serving = "running" => registry = AllTools

-----------------------------------------------------------------------------
(* C3 *)

\* the tools that return json.dumps of the upstream body and nothing else
PassThroughTools ==
    UpstreamTools \ {"stock_price", "stock_info", "income_statement",
                     "get_ticker_exchange_info", "get_intraday_aggregates"}

\* a body whose results the session pass of get_intraday_aggregates can walk:
\* a non-empty list of objects whose t, where present, is a number
HasBars(body) ==
    /\ body.t = "dict" /\ HasKey(body.d, "results")
    /\ Get(body.d, "results").t = "list" /\ Get(body.d, "results").l # <<>>
WalkableBars(body) ==
    \A i \in DOMAIN Get(body.d, "results").l :
        LET bar == Get(body.d, "results").l[i]
        IN bar.t = "dict" /\ (HasKey(bar.d, "t") => IsNumber(Get(bar.d, "t")))
\* the body with market_session and et_time set on every bar that carries t
WithSessionFields(body) ==
    PDict(SetItem(body.d, "results",
        PList([i \in DOMAIN Get(body.d, "results").l |->
                 LET bar == Get(body.d, "results").l[i]
                 IN IF HasKey(bar.d, "t") THEN AugmentBar(bar) ELSE bar])))

-----------------------------------------------------------------------------
(* C4 *)

\* C4: an optional argument left None puts no key of its name in the query
\* passed to requests.get, and the query holds only keys the caller supplied,
\* keys the tool's own builder sets, and apiKey.
C4_AbsentNotDefaulted ==
    \A c \in Callers :
        HasRequest(c) =>
            LET a == call[c].args
                tool == call[c].tool
                keys == Keys(Req(c).params)
            IN /\ \A p \in OptionalParams(tool) : a[p] = PNone => p \notin keys
               /\ keys \subseteq
                     {p \in DOMAIN a : a[p] \notin {PNone, Omitted}} \cup BuilderKeys(tool) \cup {"apiKey"}

\* get_dividends has sent a query with a supplied key and without an omitted one
C4_Witness ==
    \E c \in Callers :
        /\ HasRequest(c) /\ call[c].tool = "get_dividends"
        /\ call[c].args.limit = PNone /\ call[c].args.frequency = PInt(1)
        /\ Keys(Req(c).params) = {"frequency", "apiKey"}

-----------------------------------------------------------------------------
(* C5 *)

\* C5: an optional argument the caller supplies (anything but None) is in the
\* query under its name, also when it is 0, 0.0 or the empty string; numbers
\* and strings other than the ticker are sent as given.
C5_SuppliedFalsyIsSent ==
    \A c \in Callers :
        HasRequest(c) =>
            LET a == call[c].args
            IN \A p \in OptionalParams(call[c].tool) :
                  a[p] # PNone =>
                     /\ HasKey(Req(c).params, p)
                     /\ (p # "ticker" /\ a[p].t # "bool") => Get(Req(c).params, p) = a[p]

-----------------------------------------------------------------------------
(* C6 *)

\* the ISO date string of the day an epoch-based value denotes
IsoOfDay(v) ==
    CASE v.t = "int" -> PStr(StrfDate(Civil(v.i)))
      [] v.t = "datetime" -> PStr(StrfDate(Civil(v.e)))
      [] v.t = "date" -> PStr(StrfDate(Civil(v.n * 86400)))
      [] OTHER -> v

\* C6: get_aggregates and get_intraday_aggregates send, for a from_date or
\* to_date given as an integer epoch, a datetime or a date, the request they
\* send for the ISO date string of the same day.
C6_DateFormsAgree ==
    \A c \in Callers :
        (HasRequest(c) /\ call[c].tool \in {"get_aggregates", "get_intraday_aggregates"}) =>
            LET a == call[c].args
                iso == [a EXCEPT !.from_date = IsoOfDay(a.from_date),
                                 !.to_date = IsoOfDay(a.to_date)]
                b == RequestOf(call[c].tool, iso, call[c].now)
            IN Req(c) = polygon_request(b.path, b.params, env)

-----------------------------------------------------------------------------
(* C7 *)

Sessions == {"pre_market", "regular_market", "after_hours", "market_closed"}

\* C7: _determine_market_session gives every hour in 0..23 and minute in 0..59
\* exactly one session: pre_market for minutes 240..569 past midnight,
\* regular_market for 570..959, after_hours for 960..1199, market_closed
\* otherwise; 9:30 is regular_market, 16:00 after_hours, 20:00 and 3:59 closed.
C7_SessionByMinuteOfDay ==
    session # "none" =>
        LET tm == hour * 60 + minute
        IN /\ session \in Sessions
           /\ session = "pre_market" <=> tm \in 240..569
           /\ session = "regular_market" <=> tm \in 570..959
           /\ session = "after_hours" <=> tm \in 960..1199
           /\ session = "market_closed" <=> tm \in (0..239) \cup (1200..1439)
           /\ (hour = 9 /\ minute = 30) => session = "regular_market"
           /\ (hour = 16 /\ minute = 0) => session = "after_hours"
           /\ (hour = 20 /\ minute = 0) => session = "market_closed"
           /\ (hour = 3 /\ minute = 59) => session = "market_closed"

\* 9:30 has been classified
C7_Witness == hour = 9 /\ minute = 30 /\ session = "regular_market"

-----------------------------------------------------------------------------
(* C8 *)

\* C8: every request sent is a GET whose query ends with apiKey, holds apiKey
\* once, with the value of POLYGON_API_KEY, after the builder's parameters
\* unchanged; and no request is sent while POLYGON_API_KEY is unset or empty.
C8_CredentialOnceLast ==
    \A c \in Callers :
        HasRequest(c) =>
            LET q == Req(c).params
                b == RequestOf(call[c].tool, call[c].args, call[c].now)
            IN /\ Req(c).method = "GET"
               /\ env.t = "str" /\ env.s # <<>>
               /\ q[Len(q)] = <<"apiKey", env>>
               /\ Cardinality({i \in DOMAIN q : q[i][1] = "apiKey"}) = 1
               /\ SubSeq(q, 1, Len(q) - 1) = b.params

\* a request with builder parameters before the credential has been sent
C8_Witness ==
    \E c \in Callers :
        /\ HasRequest(c) /\ call[c].tool = "search_tickers"
        /\ Len(Req(c).params) >= 3
        /\ Req(c).params[Len(Req(c).params)][1] = "apiKey"

-----------------------------------------------------------------------------
(* C9 *)

CasePairs == {<<"A", "a">>, <<"B", "b">>, <<"D", "d">>, <<"K", "k">>,
              <<"N", "n">>, <<"R", "r">>, <<"V", "v">>}
\* u is s with every lower-case letter replaced by its capital
IsUpperOf(u, s) ==
    /\ Len(u) = Len(s)
    /\ \A i \in DOMAIN s :
          /\ u[i] \notin LowerChars
          /\ u[i] = s[i] \/ <<u[i], s[i]>> \in CasePairs
\* text holds, somewhere, the capitalised s
HoldsUpperOf(text, s) ==
    \E i \in 1..Len(text) :
        i + Len(s) - 1 <= Len(text) /\ IsUpperOf(SubSeq(text, i, i + Len(s) - 1), s)

\* the parameter that names the ticker, and the query key it is sent under
\* ("" when it is part of the path)
TickerParam(tool) ==
    CASE tool \in {"stock_price", "stock_info", "income_statement"} -> "stock_ticker"
      [] tool \in {"get_options_contracts", "get_options_snapshot"} -> "underlying_asset"
      [] tool \in {"get_aggregates", "get_previous_close", "get_last_trade",
                   "get_last_quote", "get_snapshot_ticker", "get_ticker_news",
                   "get_dividends", "get_splits", "get_intraday_aggregates",
                   "get_ticker_exchange_info", "get_earnings", "get_analyst_ratings",
                   "get_short_interest", "get_balance_sheet", "get_cash_flow"} -> "ticker"
      [] OTHER -> ""
TickerKey(tool) ==
    CASE tool \in {"income_statement", "get_ticker_news", "get_dividends", "get_splits",
                   "get_earnings", "get_analyst_ratings", "get_short_interest",
                   "get_balance_sheet", "get_cash_flow"} -> "ticker"
      [] tool = "get_options_contracts" -> "underlying_asset"
      [] OTHER -> ""

\* C9: the ticker or underlying asset a caller names is upper-cased where the
\* request carries it, in the path or under its query key, whatever its case.
C9_TickerUpperCased ==
    \A c \in Callers :
        (HasRequest(c) /\ TickerParam(call[c].tool) # "") =>
            LET tk == call[c].args[TickerParam(call[c].tool)]
                key == TickerKey(call[c].tool)
            IN (tk.t = "str" /\ tk.s # <<>>) =>
                  /\ \A i \in DOMAIN Req(c).url : Req(c).url[i] \notin LowerChars
                  /\ IF key = "" THEN HoldsUpperOf(Req(c).url, tk.s)
                     ELSE /\ HasKey(Req(c).params, key)
                          /\ Get(Req(c).params, key).t = "str"
                          /\ IsUpperOf(Get(Req(c).params, key).s, tk.s)

\* get_aggregates has sent a request for a ticker given in lower case
C9_Witness ==
    \E c \in Callers :
        /\ HasRequest(c) /\ call[c].tool = "get_aggregates"
        /\ call[c].args.ticker = PStr(<<"n", "v", "d", "a">>)
        /\ HoldsUpperOf(Req(c).url, <<"n", "v", "d", "a">>)

-----------------------------------------------------------------------------
(* C10 *)

BoolParams(tool) ==
    CASE tool \in {"get_aggregates", "get_previous_close"} -> {"adjusted"}
      [] tool = "get_intraday_aggregates" -> {"adjusted", "include_otc"}
      [] tool = "search_tickers" -> {"active"}
      [] tool = "get_splits" -> {"reverse_split"}
      [] tool = "get_market_gainers_losers" -> {"include_otc"}
      [] OTHER -> {}

\* C10: a boolean argument the caller supplies is in the query under its name
\* as "true" or "false": False is sent as "false".
C10_SuppliedBooleansSent ==
    \A c \in Callers :
        HasRequest(c) =>
            \A p \in BoolParams(call[c].tool) :
                call[c].args[p].t = "bool" =>
                    /\ HasKey(Req(c).params, p)
                    /\ Get(Req(c).params, p) =
                          PStr(<<IF call[c].args[p].b THEN "true" ELSE "false">>)

-----------------------------------------------------------------------------
(* C11 *)

\* the bars a printed bar may stand for: the upstream's bar as it came, or
\* with market_session and et_time set to some session and some local time
BarReadings(bar) ==
    IF bar.t # "dict" \/ ~HasKey(bar.d, "t") \/ Get(bar.d, "t").t # "int"
    THEN {bar}
    ELSE {bar} \cup
         {PDict(SetItem(SetItem(bar.d, "market_session", PStr(<<s>>)), "et_time",
                    PStr(StrfDateTime(Civil(Get(bar.d, "t").i \div 1000 + k * 3600), "ET")))) :
             s \in Sessions, k \in {-5, -4, 0}}
\* the documents whose print the caller of get_intraday_aggregates may hold
DocReadings(body) ==
    LET bars == Get(body.d, "results").l
    IN {PDict(SetItem(body.d, "results", PList(l))) :
           l \in {f \in [DOMAIN bars -> UNION {BarReadings(bars[i]) : i \in DOMAIN bars}] :
                     \A i \in DOMAIN bars : f[i] \in BarReadings(bars[i])}}
\* every key of the object `from` is in the object `to` with the same value
KeepsMembers(from, to) ==
    \A i \in DOMAIN from.d :
        HasKey(to.d, from.d[i][1]) /\ Get(to.d, from.d[i][1]) = from.d[i][2]
\* doc holds every top-level field of body and every field of every bar
Preserves(body, doc) ==
    LET bars == Get(body.d, "results").l
        out == Get(doc.d, "results").l
    IN /\ \A i \in DOMAIN body.d :
              body.d[i][1] # "results" =>
                  HasKey(doc.d, body.d[i][1]) /\ Get(doc.d, body.d[i][1]) = body.d[i][2]
       /\ Len(out) = Len(bars)
       /\ \A i \in DOMAIN bars : KeepsMembers(bars[i], out[i])

\* C11: the document get_intraday_aggregates returns holds every key/value
\* pair of the upstream body: the top-level fields and every field of every
\* bar, a market_session or et_time the upstream sent included.
C11_AugmentationOnlyAdds ==
    \A c \in Callers :
        (AnsweredBody(c) /\ call[c].tool = "get_intraday_aggregates"
           /\ HasBars(call[c].outcome.body) /\ WalkableBars(call[c].outcome.body)) =>
            /\ call[c].result.kind = "return"
            /\ \E doc \in DocReadings(call[c].outcome.body) :
                  /\ call[c].result.text = json_dumps(doc)
                  /\ Preserves(call[c].outcome.body, doc)

-----------------------------------------------------------------------------
(* C12 *)

\* the invocation's arguments are ones its tool accepts
WellFormed(c) ==
    /\ call[c].tool \in UpstreamTools =>
          RequestOf(call[c].tool, call[c].args, call[c].now).ok
    /\ call[c].tool = "convert_utc_to_et" => call[c].args.utc_timestamp.t = "int"

\* C12: while POLYGON_API_KEY is unset or empty, every invocation of a tool
\* (with arguments the tool accepts) ends with a returned string that starts
\* with "Error: "; and the module loads and registers every tool whatever the
\* credential is.
C12_NoCredentialFailsInvocation ==
    /\ (~isMain /\ Loaded) => registry = AllTools
    /\ ~Truthy(env) =>
          \A c \in Callers :
              (IsDone(c) /\ WellFormed(c)) =>
                  call[c].result.kind = "return" /\ StartsWithError(call[c].result.text)

-----------------------------------------------------------------------------
(* C13 *)

\* the text of each static document, as json.dumps(..., indent=2) prints the
\* literal of the source
StaticText(tool) ==
    CASE tool = "get_market_hours_info" ->
            "{\n  \"pre_market\": {\n    \"start\": \"04:00\",\n    \"end\": \"09:30\",\n    \"timezone\": \"ET\"\n  },\n  \"regular_market\": {\n    \"start\": \"09:30\",\n    \"end\": \"16:00\",\n    \"timezone\": \"ET\"\n  },\n  \"after_hours\": {\n    \"start\": \"16:00\",\n    \"end\": \"20:00\",\n    \"timezone\": \"ET\"\n  },\n  \"important_notes\": [\n    \"All Polygon timestamps are in UTC (Unix timestamps)\",\n    \"Convert UTC to ET for market hour alignment\",\n    \"Pre-market: 4:00 AM - 9:30 AM ET\",\n    \"Regular market: 9:30 AM - 4:00 PM ET\",\n    \"After-hours: 4:00 PM - 8:00 PM ET\"\n  ]\n}"
      [] tool = "get_exchange_info" ->
            "{\n  \"major_exchanges\": [\n    {\n      \"name\": \"New York Stock Exchange\",\n      \"symbols\": [\n        \"NYSE\",\n        \"NYSE American\",\n        \"NYSE Arca\",\n        \"NYSE Chicago\",\n        \"NYSE National\"\n      ]\n    },\n    {\n      \"name\": \"Nasdaq\",\n      \"symbols\": [\n        \"OMX\",\n        \"BX\",\n        \"PSX\",\n        \"Philadelphia\"\n      ]\n    },\n    {\n      \"name\": \"Cboe Global Markets\",\n      \"symbols\": [\n        \"BZX\",\n        \"BYX\",\n        \"EDGX\",\n        \"EDGA\"\n      ]\n    },\n    {\n      \"name\": \"MIAX Exchange Group\",\n      \"symbols\": [\n        \"Pearl\",\n        \"Emerald\",\n        \"Equities\"\n      ]\n    },\n    {\n      \"name\": \"Members Exchange\",\n      \"symbols\": [\n        \"MEMX\"\n      ]\n    },\n    {\n      \"name\": \"Investors Exchange\",\n      \"symbols\": [\n        \"IEX\"\n      ]\n    },\n    {\n      \"name\": \"Long-Term Stock Exchange\",\n      \"symbols\": [\n        \"LTSE\"\n      ]\n    }\n  ],\n  \"additional_sources\": [\n    {\n      \"name\": \"FINRA Trading Facilities\",\n      \"description\": \"Provides trade reporting but not quotes\",\n      \"facilities\": [\n        \"FINRA NYSE TRF\",\n        \"FINRA Nasdaq TRF Carteret\",\n        \"FINRA Nasdaq TRF Chicago\"\n      ]\n    },\n    {\n      \"name\": \"OTC Reporting Facility\",\n      \"description\": \"Captures OTC trades but not quotes\"\n    }\n  ],\n  \"total_coverage\": \"19 major stock exchanges + dark pools + FINRA + OTC\",\n  \"data_quality\": \"Direct exchange feeds + SIP consolidation for accuracy\"\n}"
      [] tool = "get_sip_info" ->
            "{\n  \"what_are_sips\": \"Securities Information Processors (SIPs) consolidate trade and quote data from all exchanges into a single feed\",\n  \"sip_functions\": [\n    \"Provide National Best Bid and Offer (NBBO)\",\n    \"Consolidate last sale data\",\n    \"Ensure equal access to market data\",\n    \"Maintain transparent and fair trading environment\"\n  ],\n  \"major_sips\": [\n    {\n      \"name\": \"Consolidated Tape Association (CTA)\",\n      \"coverage\": \"NYSE-listed and regional exchange securities\",\n      \"tapes\": [\n        \"Tape A\",\n        \"Tape B\"\n      ]\n    },\n    {\n      \"name\": \"Unlisted Trading Privileges (UTP)\",\n      \"coverage\": \"All Nasdaq-listed securities\",\n      \"tapes\": [\n        \"Tape C\"\n      ]\n    }\n  ],\n  \"data_flow\": [\n    \"Exchanges \\u2192 SIPs \\u2192 Polygon.io \\u2192 Users\",\n    \"Direct exchange feeds + SIP consolidation\",\n    \"Alternative Trading Systems (ATS) report to FINRA within 10 seconds\"\n  ],\n  \"importance\": \"SIPs are vital infrastructure ensuring all market participants have equal access to trade and quote data\"\n}"
      [] tool = "get_market_data_coverage" ->
            "{\n  \"infrastructure\": {\n    \"primary_facility\": \"Equinix Data Center, New Jersey\",\n    \"redundancy\": \"ORD11 data center, Chicago\",\n    \"co_location\": \"Strategically co-located with exchanges\",\n    \"benefits\": [\n      \"Reduced latency\",\n      \"Enhanced reliability\",\n      \"Direct physical connections\"\n    ]\n  },\n  \"data_sources\": {\n    \"exchanges\": \"All 19 major U.S. stock exchanges\",\n    \"dark_pools\": \"Additional dark pool data\",\n    \"finra\": \"FINRA trading facilities\",\n    \"otc\": \"OTC markets\",\n    \"ats\": \"Alternative Trading Systems\"\n  },\n  \"data_quality\": {\n    \"direct_feeds\": \"Direct relationships with each exchange\",\n    \"licensing\": \"Compliance with all licensing requirements\",\n    \"sip_integration\": \"Combines direct exchange access with regulated SIP consolidation\",\n    \"coverage\": \"Every trade, quote, and market event as it occurs\"\n  },\n  \"regulatory_compliance\": {\n    \"personal_use\": \"Full U.S. feed available for non-industry professionals\",\n    \"business_clients\": \"Tailored plans with specific exchange licensing\",\n    \"monitoring\": \"Close compliance monitoring for appropriate usage\"\n  },\n  \"market_hours\": {\n    \"pre_market\": \"4:00 AM - 9:30 AM ET\",\n    \"regular_market\": \"9:30 AM - 4:00 PM ET\",\n    \"after_hours\": \"4:00 PM - 8:00 PM ET\",\n    \"timestamp_format\": \"Unix timestamps (UTC)\"\n  }\n}"

\* C13: an invocation of get_market_hours_info, get_exchange_info,
\* get_sip_info or get_market_data_coverage sends no request, has no upstream
\* outcome, does not depend on POLYGON_API_KEY and returns the one fixed
\* document of its tool, the same text on every invocation.
C13_StaticDocumentsFixed ==
    \A c \in Callers :
        (call[c].pc # "idle" /\ call[c].tool \in StaticTools) =>
            /\ IsDone(c)
            /\ call[c].sent = <<>> /\ call[c].outcome.kind = "none"
            /\ call[c].result = Returned(<<StaticText(call[c].tool)>>)

\* get_sip_info has returned its document while POLYGON_API_KEY is unset
C13_Witness ==
    \E c \in Callers :
        /\ IsDone(c) /\ call[c].tool = "get_sip_info" /\ env = PNone
        /\ call[c].result.kind = "return" /\ ~StartsWithError(call[c].result.text)
        /\ call[c].sent = <<>>

-----------------------------------------------------------------------------
(* C14 *)

\* C14: an invocation of an upstream-backed tool sends at most one GET.  When
\* it starts it sends exactly one if POLYGON_API_KEY is set and its request
\* builds, whatever was invoked or answered before, and waits for the answer
\* of that request; otherwise it ends without a request.  When requests.get
\* completes (an answer, a timeout, a connection error) the invocation ends
\* with the outcome of that one request and sends nothing more.
C14_OneGetPerInvocation ==
    [][\A c \in Callers :
          LET old == call[c]
              new == call'[c]
          IN /\ Len(new.sent) <= 1
             /\ (old.pc = "idle" /\ new.pc # "idle" /\ new.tool \in UpstreamTools) =>
                   IF Truthy(env) /\ RequestOf(new.tool, new.args, new.now).ok
                   THEN new.pc = "waiting" /\ Len(new.sent) = 1 /\ new.result = NoResult
                   ELSE new.pc = "done" /\ new.sent = <<>>
             /\ (old.pc = "waiting" /\ new # old) =>
                   /\ new.pc = "done" /\ new.sent = old.sent
                   /\ new.outcome.kind # "none" /\ new.result # NoResult]_vars

\* a GET has timed out and its invocation has ended with that one request sent
C14_Witness ==
    \E c \in Callers :
        /\ IsDone(c) /\ call[c].tool = "get_last_trade"
        /\ call[c].outcome.kind = "timeout" /\ Len(call[c].sent) = 1
        /\ call[c].result.kind = "return" /\ StartsWithError(call[c].result.text)

-----------------------------------------------------------------------------
(* Two callers at once: the tools invoked concurrently, in every interleaving
   of their steps, on a server that is running or a module that is imported *)

PairCallers == {"c1", "c2"}
PairTools == {"stock_info", "get_aggregates", "get_intraday_aggregates",
              "get_market_hours_info", "convert_utc_to_et"}
PairArgs(tool) ==
    CASE tool = "stock_info" -> [stock_ticker : {PStr(x) : x \in TickerTexts}]
      [] tool \in {"get_aggregates", "get_intraday_aggregates"} ->
            {a \in ArgSets(tool) :
                /\ a.ticker.t = "str" /\ a.from_date.t = "date" /\ a.to_date.t = "date"
                /\ a.adjusted = PNone /\ a.sort = PNone
                /\ a.limit \in {PNone, PInt(1)}
                /\ tool = "get_intraday_aggregates" => a.include_otc = PBool(TRUE)}
      [] tool = "get_market_hours_info" -> ArgSets(tool)
      [] tool = "convert_utc_to_et" -> [utc_timestamp : {PInt(52200), PNone}]
PairOutcomes ==
    {o \in Outcomes :
        \/ o.kind = "timeout"
        \/ o.kind = "response" /\ o.status = 500
        \/ /\ o.kind = "response" /\ o.status = 200 /\ o.json
           /\ \/ o.body = PDict(<<>>)
              \/ HasBars(o.body) /\ WalkableBars(o.body)
                   /\ Len(Get(o.body.d, "results").l) = 1}

\* the server runs with the tools registered above the __main__ block, or the
\* module has been imported whole
InitPair ==
    /\ env \in EnvValues
    /\ isMain \in BOOLEAN
    /\ loadPos = IF isMain THEN CHOOSE i \in DOMAIN Statements : Statements[i + 1] = "__main__"
                 ELSE Len(Statements)
    /\ registry = {Statements[i] : i \in 1..loadPos} \ {"__main__"}
    /\ serving = IF isMain THEN "running" ELSE "no"
    /\ call = [c \in PairCallers |-> Idle]
    /\ hour = 0 /\ minute = 0 /\ session = "none"
    /\ health = HealthIdle

NextPair ==
    \/ \E c \in PairCallers :
          /\ call[c].pc = "idle"
          /\ \E tool \in {t \in PairTools : Callable(t)} :
                \E a \in PairArgs(tool) : Invoke(c, tool, a, 0)
    \/ \E c \in PairCallers :
          /\ call[c].pc = "waiting"
          /\ \E o \in PairOutcomes : Respond(c, o)
    \/ \E c \in PairCallers : Finish(c)

SpecPair == InitPair /\ [][NextPair]_vars

-----------------------------------------------------------------------------
(* C15 *)

\* the request an invocation sends when it runs alone
AloneSent(tool, a, now, e) ==
    IF tool \notin UpstreamTools THEN <<>>
    ELSE LET b == RequestOf(tool, a, now)
             k == _require_polygon_api_key(e)
         IN IF b.ok /\ k.ok THEN <<polygon_request(b.path, b.params, k.v)>> ELSE <<>>
\* what an invocation gives its caller when it runs alone and the upstream
\* does o (o is not looked at where no request is sent)
AloneResult(tool, a, now, e, o) ==
    IF tool \in StaticTools THEN ToolBoundary(tool, Value(json_dumps(StaticDocument(tool))))
    ELSE IF tool = "convert_utc_to_et" THEN ToolBoundary(tool, convert_utc_to_et_result(a))
    ELSE LET b == RequestOf(tool, a, now)
             k == _require_polygon_api_key(e)
         IN IF ~b.ok THEN ToolBoundary(tool, b)
            ELSE IF ~k.ok THEN ToolBoundary(tool, k)
            ELSE LET r == polygon_response(o)
                 IN ToolBoundary(tool, IF r.ok THEN ResultOf(tool, a, r.v) ELSE r)
\* the invocation cur is where it would be had it run alone with credential e
AsAlone(cur, e) ==
    cur.pc # "idle" =>
        /\ cur.sent = AloneSent(cur.tool, cur.args, cur.now, e)
        /\ cur.pc = "waiting" => cur.result = NoResult
        /\ cur.pc = "done" =>
              cur.result = AloneResult(cur.tool, cur.args, cur.now, e, cur.outcome)

-----------------------------------------------------------------------------
(* C17 *)

\* the session of the minute tm of the local day
SessionOfMinute(tm) ==
    IF tm \in 240..569 THEN "pre_market"
    ELSE IF tm \in 570..959 THEN "regular_market"
    ELSE IF tm \in 960..1199 THEN "after_hours"
    ELSE "market_closed"
\* t milliseconds after the epoch, in seconds of local time (UTC minus 5 hours)
LocalSeconds(t) == t \div 1000 - 18000

\* a bar with market_session and et_time holding the session and the text of
\* the local time of its t; a bar without t as it came
WithLocalSession(bar) ==
    IF ~HasKey(bar.d, "t") THEN bar
    ELSE LET local == LocalSeconds(Get(bar.d, "t").i)
             tm == (local % 86400) \div 60
         IN PDict(SetItem(SetItem(bar.d, "market_session", PStr(<<SessionOfMinute(tm)>>)),
                          "et_time", PStr(StrfDateTime(Civil(local), "ET"))))

-----------------------------------------------------------------------------
(* C18 *)

\* the documents whose print the caller of convert_utc_to_et may hold:
\* utc_datetime and et_datetime each some whole hours away from the instant ts
ConversionReadings(ts) ==
    {PDict(<<<<"utc_timestamp", v>>,
             <<"utc_datetime", PStr(StrfDateTime(Civil(ts + ku * 3600), "UTC"))>>,
             <<"et_datetime", PStr(StrfDateTime(Civil(ts + ke * 3600), "ET"))>>,
             <<"market_session", PStr(<<s>>)>>>>) :
        v \in {PInt(ts), PInt(ts - 18000), PStr(<<ToString(ts)>>)},
        ku \in {-5, 0, 5}, ke \in {-5, -4, 0, 5}, s \in Sessions}

\* C18: convert_utc_to_et, given an integer number of seconds ts, returns the
\* print of a document whose utc_timestamp is ts, whose utc_datetime is the
\* UTC time of ts, whose et_datetime is the time 18000 seconds before it (on
\* the previous calendar day when the UTC time of day is before 05:00) and
\* whose market_session is the session of the hour and minute of et_datetime;
\* given a value that is not a number it returns a string starting with
\* "Error: ".
C18_ConvertShiftsFiveHours ==
    \A c \in Callers :
        (IsDone(c) /\ call[c].tool = "convert_utc_to_et") =>
            LET v == call[c].args.utc_timestamp
            IN /\ call[c].result.kind = "return"
               /\ call[c].sent = <<>>
               /\ IF v.t = "int"
                  THEN \E doc \in ConversionReadings(v.i) :
                          LET et == Civil(v.i - 18000)
                          IN /\ call[c].result.text = json_dumps(doc)
                             /\ Get(doc.d, "utc_timestamp") = v
                             /\ Get(doc.d, "utc_datetime") =
                                   PStr(StrfDateTime(Civil(v.i), "UTC"))
                             /\ Get(doc.d, "et_datetime") = PStr(StrfDateTime(et, "ET"))
                             /\ Get(doc.d, "market_session") =
                                   PStr(<<SessionOfMinute(et.hour * 60 + et.minute)>>)
                             /\ v.i % 86400 < 18000 =>
                                   /\ et.day = Civil(v.i - 86400).day
                                   /\ et.month = Civil(v.i - 86400).month
                                   /\ et.hour >= 19
                             /\ v.i % 86400 >= 18000 =>
                                   et.day = Civil(v.i).day /\ et.hour = Civil(v.i).hour - 5
                  ELSE StartsWithError(call[c].result.text)

\* 04:00 UTC on 1 January 1970 has been converted to 23:00 of 31 December 1969
C18_Witness ==
    \E c \in Callers :
        /\ IsDone(c) /\ call[c].tool = "convert_utc_to_et"
        /\ call[c].args.utc_timestamp = PInt(14400)
        /\ call[c].result = Returned(<<"{\n  \"utc_timestamp\": 14400,\n  \"utc_datetime\": \"1970-01-01 04:00:00 UTC\",\n  \"et_datetime\": \"1969-12-31 23:00:00 ET\",\n  \"market_session\": \"market_closed\"\n}">>)

-----------------------------------------------------------------------------
(* C19 *)

\* the probe's GET was answered with status 200
Answered200 == health.outcome.kind = "response" /\ health.outcome.status = 200

\* C19: check_health returns True exactly when its GET of /health was
\* answered with status 200, and False for every other status, a connection
\* error, a timeout, any other exception and a PORT that is not a number; it
\* always returns, and the script exits with 0 exactly when the answer was
\* 200 and with 1 otherwise.
C19_HealthyIffStatus200 ==
    /\ health.pc \in {"returned", "exited"} =>
          /\ health.returned \in BOOLEAN
          /\ health.returned <=> Answered200
          /\ ~IntOf(PortSetting(health.port)).ok =>
                ~health.returned /\ health.sent = <<>>
    /\ health.pc = "exited" =>
          /\ health.code \in {0, 1}
          /\ health.code = 0 <=> Answered200

\* the probe has exited with 0 after a 200 answer from the default port
C19_Witness ==
    /\ health.pc = "exited" /\ health.code = 0 /\ health.port = PNone
    /\ health.sent = <<<<"http://localhost:", "8000", "/health">>>>
    /\ Answered200 /\ health.returned

-----------------------------------------------------------------------------
(* C20 *)

\* the listing fields get_ticker_exchange_info copies from results, in order
ListingFields ==
    <<"primary_exchange", "market", "locale", "type", "active", "currency_name",
      "cik", "composite_figi", "share_class_figi">>
\* the note on coverage that closes the document
CoverageNote ==
    PDict(<<<<"data_available", PStr(<<"Real-time trades, quotes, and market events">>)>>,
            <<"exchange_feed", PStr(<<"Direct feed from primary exchange">>)>>,
            <<"sip_integration", PStr(<<"Included in consolidated SIP feeds">>)>>,
            <<"market_sessions", PList([i \in 1..3 |->
                PStr(<<<<"pre_market", "regular_market", "after_hours">>[i]>>)])>>>>)
\* the document for a ticker and the listing `info`
ListingDocument(ticker, info) ==
    PDict(<<<<"ticker", PStr(Upper(ticker.s))>>>>
          \o [i \in DOMAIN ListingFields |->
                <<ListingFields[i],
                  IF HasKey(info.d, ListingFields[i]) THEN Get(info.d, ListingFields[i])
                  ELSE PNone>>]
          \o <<<<"polygon_coverage", CoverageNote>>>>)

-----------------------------------------------------------------------------
(* C21 *)

\* the tool that is to build the same request as `tool`
Twin(tool) ==
    CASE tool = "get_balance_sheet" -> "get_cash_flow"
      [] tool = "get_cash_flow" -> "get_balance_sheet"
      [] tool = "get_intraday_aggregates" -> "get_aggregates"

\* C21: an invocation of get_balance_sheet sends the request, and returns the
\* string, that get_cash_flow sends and returns for the same arguments and
\* the same upstream answer, and the other way round: the path is
\* /vX/reference/financials and the query holds the ticker upper-cased,
\* timeframe (quarterly when left out), order (desc when left out) and limit
\* only when it is supplied and not 0.  An invocation of
\* get_intraday_aggregates with include_otc False sends the request
\* get_aggregates sends for the remaining arguments.
C21_TwinBuildersAgree ==
    \A c \in Callers :
        LET cur == call[c]
        IN /\ (cur.pc # "idle" /\ cur.tool \in {"get_balance_sheet", "get_cash_flow"}) =>
                /\ cur.sent = AloneSent(Twin(cur.tool), cur.args, cur.now, env)
                /\ IsDone(c) =>
                      cur.result = AloneResult(Twin(cur.tool), cur.args, cur.now, env,
                                               cur.outcome)
                /\ HasRequest(c) =>
                      LET q == Req(c).params
                          a == cur.args
                      IN /\ Req(c).url = <<"https://api.polygon.io", "/vX/reference/financials">>
                         /\ Keys(q) \subseteq {"ticker", "timeframe", "order", "limit", "apiKey"}
                         /\ HasKey(q, "ticker") /\ IsUpperOf(Get(q, "ticker").s, a.ticker.s)
                         /\ HasKey(q, "timeframe")
                         /\ Get(q, "timeframe") =
                               (IF a.timeframe = Omitted THEN PStr(<<"quarterly">>)
                                ELSE a.timeframe)
                         /\ HasKey(q, "order")
                         /\ Get(q, "order") =
                               (IF a.order = Omitted THEN PStr(<<"desc">>) ELSE a.order)
                         /\ HasKey(q, "limit") <=> a.limit \notin {PNone, PInt(0)}
                         /\ HasKey(q, "limit") => Get(q, "limit") = a.limit
           /\ (cur.pc # "idle" /\ cur.tool = "get_intraday_aggregates"
                 /\ cur.args.include_otc = PBool(FALSE)) =>
                cur.sent = AloneSent(Twin(cur.tool), cur.args, cur.now, env)

\* get_cash_flow, called with the ticker alone and limit 0, has sent the
\* three-key query and returned the upstream body
C21_Witness ==
    \E c \in Callers :
        /\ AnsweredBody(c) /\ call[c].tool = "get_cash_flow"
        /\ call[c].args = [ticker |-> PStr(<<"n", "v", "d", "a">>), timeframe |-> Omitted,
                           limit |-> PInt(0), order |-> Omitted]
        /\ Req(c).params = <<<<"ticker", PStr(<<"N", "V", "D", "A">>)>>,
                             <<"timeframe", PStr(<<"quarterly">>)>>,
                             <<"order", PStr(<<"desc">>)>>,
                             <<"apiKey", PStr(<<"k3y">>)>>>>
        /\ call[c].outcome.body # PDict(<<>>)
        /\ call[c].result = Returned(json_dumps(call[c].outcome.body))

====
